---- MODULE Spec2Model ----
(***************************************************************************)
(* A model of presenterm's session controller (src/src/presenter.rs) and   *)
(* of the on-demand execution operation (src/src/builder.rs).              *)
(*                                                                         *)
(* Several specifications share the module:                                *)
(*   Spec     the session loop of Presenter::present, one action per       *)
(*            statement of the loop, with the command applied in full by   *)
(*            the action that fetches it;                                  *)
(*   SpecRun  one RunCodeOperation under any interleaving of start_render, *)
(*            poll_state, as_render_operations and the steps of the        *)
(*            external process behind its execution handle;                *)
(*   SpecList one ListIterator walked over a list of items;                *)
(*   SpecMutator  one HighlightMutator under any sequence of calls, and    *)
(*            the HighlightedLines that read its context;                  *)
(*   SpecBuild  PresentationBuilder::build over a sequence of elements,    *)
(*            one action per element.                                      *)
(* Indices are 0-based as in the source (usize); a sequence s holds the    *)
(* element of index i at s[i + 1].  Option<T> is a sequence of length 0    *)
(* (None) or 1 (Some).                                                     *)
(***************************************************************************)
EXTENDS Integers, Sequences, FiniteSets, TLC

VARIABLES
    \* ---- Presenter (presenter.rs:25-34) and the locals of present() ----
    pc,         \* position of present() (presenter.rs:59-88)
    mode,       \* Presenter::mode
    state,      \* Presenter::state : PresenterState
    pending,    \* Presenter::slides_with_pending_widgets
    effect,     \* the CommandSideEffect matched at line 72, "Idle" outside it
    loaded,     \* what load_presentation came to in the current step: "none"
                \* when it was not called, "ok", or the text of its error
    rendered,   \* what Presenter::render drew last: "nothing", "slide" or "error"
    result,     \* the value present() returned, "running" before it returns
    source,     \* the commands the command source holds for
                \* try_next_command, when the specification tracks them
    \* ---- one RunCodeOperation (builder.rs:945-958) and its callers ----
    op,         \* RunCodeOperationInner
    spawns,     \* how many times CodeExecuter::execute was called for op
    call,       \* the last method called on op
    ret,        \* what that call returned
    window,     \* WindowSize::columns handed to the last as_render_operations
    shown,      \* the operations the last as_render_operations returned
    \* ---- one ListIterator (builder.rs:1089-1094) ----
    list,       \* the items and the start index ListIterator::new was given
    iter,       \* the ListIterator
    emitted,    \* the IndexedListItems next() has returned so far
    \* ---- one HighlightMutator (builder.rs:680-725) ----
    context,    \* the HighlightContext it shares with the lines
    mutation,   \* the last ChunkMutator method called, and what it returned
    line_text,  \* per line number, the text the last rendering of it chose
    \* ---- PresentationBuilder (builder.rs:45-56) ----
    builder,    \* the builder's fields
    elements,   \* the elements of the input processed so far
    built,      \* what build() came to: "building", "ok" or the error
    returned,   \* the Result build() returned, <<>> before it returns
    \* ---- one table handed to push_table (builder.rs:556-605) ----
    table_input,    \* the Table
    table_lines,    \* the lines of text pushed for it, <<>> before
    \* ---- one code block handed to CodePreparer (builder.rs:608-651) ----
    code_input,     \* the Code and the theme's code padding
    code_lines      \* the CodeLines prepared for it, <<>> before

vars == <<pc, mode, state, pending, effect, loaded, rendered, result, source,
          op, spawns, call, ret, window, shown, list, iter, emitted,
          context, mutation, line_text, builder, elements, built, returned,
          table_input, table_lines, code_input, code_lines>>

sessionVars == <<pc, mode, state, pending, effect, loaded, rendered,
                 result, source>>

runVars == <<op, spawns, call, ret, window, shown>>

listVars == <<list, iter, emitted>>

mutatorVars == <<context, mutation, line_text>>

buildVars == <<builder, elements, built, returned>>

tableVars == <<table_input, table_lines>>

codeVars == <<code_input, code_lines>>

\* all but the session's variables, and all but the RunCodeOperation's
offLive == <<runVars, listVars, mutatorVars, buildVars, tableVars, codeVars>>

\* what the actions of the session leave alone when the commands held by
\* the command source are not tracked
offSession == <<offLive, source>>

offRun == <<sessionVars, listVars, mutatorVars, buildVars, tableVars, codeVars>>

offList == <<sessionVars, runVars, mutatorVars, buildVars, tableVars, codeVars>>

offMutator == <<sessionVars, runVars, listVars, buildVars, tableVars, codeVars>>

offBuild == <<sessionVars, runVars, listVars, mutatorVars, tableVars, codeVars>>

offTable == <<sessionVars, runVars, listVars, mutatorVars, buildVars, codeVars>>

offCode == <<sessionVars, runVars, listVars, mutatorVars, buildVars, tableVars>>

-----------------------------------------------------------------------------
(* Bounds of the model. *)

\* the longest document the file at `path` may hold, in slides
MaxSlides == 2

\* the most lines an executed process prints
MaxOutput == 1

\* the widest terminal, in columns
MaxColumns == 2

Min(a, b) == IF a < b THEN a ELSE b

-----------------------------------------------------------------------------
(* The code executor, an external collaborator: a spawned process prints   *)
(* lines and finishes; ExecutionHandle::state() reads both.                *)

\* the lines a process may print
ProcessLines == {"a", "bc"}

\* the text of the error CodeExecuter::execute returns
SpawnErrorText == "spawn failed"

\* ProcessStatus
ProcessStatuses == {"Running", "Success", "Failure"}

\* ProcessStatus::is_finished
is_finished(status) == status \in {"Success", "Failure"}

\* a freshly spawned process: nothing printed, running
NewHandle == [output |-> <<>>, status |-> "Running"]

-----------------------------------------------------------------------------
(* RunCodeOperation (builder.rs:945-1050). *)

\* RunCodeOperation::new: no handle, no output, RenderOnDemandState::default()
NewInner == [handle |-> <<>>, output_lines |-> <<>>, state |-> "NotStarted"]

\* a faulty start_render: only a Rendered operation is left alone, so one
\* that is Rendering is started again
start_render_wrong_guard(inner, spawn) ==
    IF inner.state = "Rendered"
    THEN [inner |-> inner, ret |-> FALSE, executed |-> FALSE]
    ELSE IF spawn = "ok"
    THEN [inner |-> [inner EXCEPT !.handle = <<NewHandle>>, !.state = "Rendering"],
          ret |-> TRUE, executed |-> TRUE]
    ELSE [inner |-> [inner EXCEPT !.output_lines = <<SpawnErrorText>>,
                                  !.state = "Rendered"],
          ret |-> TRUE, executed |-> TRUE]

\* a faulty start_render: a failed spawn leaves the operation Rendering
start_render_error_keeps_running(inner, spawn) ==
    IF inner.state # "NotStarted"
    THEN [inner |-> inner, ret |-> FALSE, executed |-> FALSE]
    ELSE IF spawn = "ok"
    THEN [inner |-> [inner EXCEPT !.handle = <<NewHandle>>, !.state = "Rendering"],
          ret |-> TRUE, executed |-> TRUE]
    ELSE [inner |-> [inner EXCEPT !.output_lines = <<SpawnErrorText>>,
                                  !.state = "Rendering"],
          ret |-> TRUE, executed |-> TRUE]

\* RunCodeOperation::start_render.  `spawn` is the outcome of
\* CodeExecuter::execute: "ok" or "err".  Gives the new inner state, the value
\* returned and whether execute was called.
start_render(inner, spawn) ==
    IF inner.state # "NotStarted"
    THEN [inner |-> inner, ret |-> FALSE, executed |-> FALSE]
    ELSE IF spawn = "ok"
    THEN [inner |-> [inner EXCEPT !.handle = <<NewHandle>>, !.state = "Rendering"],
          ret |-> TRUE, executed |-> TRUE]
    ELSE [inner |-> [inner EXCEPT !.output_lines = <<SpawnErrorText>>,
                                  !.state = "Rendered"],
          ret |-> TRUE, executed |-> TRUE]

\* a faulty poll_state: a finished process puts the operation back to
\* NotStarted
poll_state_restarts(inner) ==
    IF inner.handle # <<>>
    THEN LET h == inner.handle[1]
             finished == is_finished(h.status)
             lines == IF h.status = "Failure"
                      THEN Append(h.output, "[finished with error]")
                      ELSE h.output
             next == [handle |-> IF finished THEN <<>> ELSE inner.handle,
                      output_lines |-> lines,
                      state |-> IF finished THEN "NotStarted" ELSE inner.state]
         IN [inner |-> next, ret |-> next.state]
    ELSE [inner |-> inner, ret |-> inner.state]

\* a faulty poll_state: the handle of a finished process is kept
poll_state_keeps_handle(inner) ==
    IF inner.handle # <<>>
    THEN LET h == inner.handle[1]
             finished == is_finished(h.status)
             lines == IF h.status = "Failure"
                      THEN Append(h.output, "[finished with error]")
                      ELSE h.output
             next == [handle |-> inner.handle,
                      output_lines |-> lines,
                      state |-> IF finished THEN "Rendered" ELSE inner.state]
         IN [inner |-> next, ret |-> next.state]
    ELSE [inner |-> inner, ret |-> inner.state]

\* RunCodeOperation::poll_state.  Gives the new inner state and the state
\* returned.
poll_state(inner) ==
    IF inner.handle # <<>>
    THEN LET h == inner.handle[1]
             finished == is_finished(h.status)
             lines == IF h.status = "Failure"
                      THEN Append(h.output, "[finished with error]")
                      ELSE h.output
             next == [handle |-> IF finished THEN <<>> ELSE inner.handle,
                      output_lines |-> lines,
                      state |-> IF finished THEN "Rendered" ELSE inner.state]
         IN [inner |-> next, ret |-> next.state]
    ELSE [inner |-> inner, ret |-> inner.state]

\* line.chars().chunks(columns): the pieces of `line`, each of at most
\* `columns` characters, in order
RECURSIVE chunks(_, _)
chunks(line, columns) ==
    IF Len(line) = 0 THEN <<>>
    ELSE IF Len(line) <= columns THEN <<line>>
    ELSE <<SubSeq(line, 1, columns)>>
         \o chunks(SubSeq(line, columns + 1, Len(line)), columns)

\* RunCodeOperation::render_line
render_line(line) ==
    [op |-> "RenderPreformattedLine", text |-> line,
     unformatted_length |-> Len(line), block_length |-> Len(line)]

\* the operations of one output line: each piece and a line break after it
RECURSIVE wrapped(_)
wrapped(pieces) ==
    IF pieces = <<>> THEN <<>>
    ELSE <<render_line(Head(pieces)), [op |-> "RenderLineBreak"]>>
         \o wrapped(Tail(pieces))

\* the loop over inner.output_lines of as_render_operations
RECURSIVE output_operations(_, _)
output_operations(lines, columns) ==
    IF lines = <<>> THEN <<>>
    ELSE wrapped(chunks(Head(lines), columns))
         \o output_operations(Tail(lines), columns)

\* a faulty as_render_operations: an operation that is NotStarted is
\* rendered as a running one
as_render_operations_always_visible(inner, columns) ==
    <<[op |-> "RenderLineBreak"],
      [op |-> "RenderDynamic",
       heading |-> IF inner.state = "Rendered" THEN " [done] " ELSE " [running] "],
      [op |-> "RenderLineBreak"],
      [op |-> "RenderLineBreak"],
      [op |-> "SetColors", colors |-> "block_colors"]>>
    \o output_operations(inner.output_lines, columns)
    \o <<[op |-> "SetColors", colors |-> "default_colors"]>>

\* RunCodeOperation::as_render_operations
as_render_operations(inner, columns) ==
    IF inner.state = "NotStarted" THEN <<>>
    ELSE <<[op |-> "RenderLineBreak"],
           [op |-> "RenderDynamic",
            heading |-> IF inner.state = "Rendered" THEN " [done] " ELSE " [running] "],
           [op |-> "RenderLineBreak"],
           [op |-> "RenderLineBreak"],
           [op |-> "SetColors", colors |-> "block_colors"]>>
         \o output_operations(inner.output_lines, columns)
         \o <<[op |-> "SetColors", colors |-> "default_colors"]>>

\* a step of the process behind a handle: it prints one more line
process_prints(h, line) == [h EXCEPT !.output = Append(@, line)]

\* a step of the process behind a handle: it ends, well or badly
process_ends(h, status) == [h EXCEPT !.status = status]

-----------------------------------------------------------------------------
(* The document at `path` and the presentation built from it.  The session *)
(* looks at a presentation only through its cursor, its slides' chunks and *)
(* the on-demand widgets of those chunks, so a document is the sequence of *)
(* its slides, a slide the sequence of its chunks and a chunk its content; *)
(* a chunk of content "exec" holds an executable code block and one of     *)
(* content "image" an image.                                               *)

\* the slides a document may hold
SlidePool == { <<"text">>, <<"text", "image">>, <<"text", "exec">> }

\* the documents the file may hold: 1..MaxSlides slides (build never yields
\* an empty presentation, builder.rs:87-100)
Documents == UNION { [1..n -> SlidePool] : n \in 1..MaxSlides }

\* the texts of the errors load_presentation may return
\* (LoadPresentationError, presenter.rs:255-265)
LoadErrors == {"reading presentation", "invalid layout"}

\* what load_presentation may come to: a document that builds, or an error
LoadOutcomes ==
    { [ok |-> TRUE, document |-> d, error |-> ""] : d \in Documents }
    \cup { [ok |-> FALSE, document |-> <<>>, error |-> e] : e \in LoadErrors }

\* PresentationBuilder::push_code_execution: an executable code block puts
\* a fresh RunCodeOperation in its chunk
built_chunk(content) ==
    [content |-> content,
     widget |-> IF content = "exec" THEN <<NewInner>> ELSE <<>>]

\* PresentationBuilder::build on success: Presentation::new(slides), the
\* cursor on the first chunk of the first slide
built_presentation(document) ==
    [slides |-> [s \in 1..Len(document) |->
                    [c \in 1..Len(document[s]) |-> built_chunk(document[s][c])]],
     current_slide_index |-> 0,
     current_chunk |-> 0]

\* Presenter::load_presentation: the presentation or the error
load_presentation(outcome) ==
    IF outcome.ok
    THEN [ok |-> TRUE, presentation |-> <<built_presentation(outcome.document)>>,
          error |-> ""]
    ELSE [ok |-> FALSE, presentation |-> <<>>, error |-> outcome.error]

\* the slides of a presentation, and the chunks of its slide of index i
slide_count(p) == Len(p.slides)

chunk_count(p, i) == Len(p.slides[i + 1])

\* Presentation::current_slide_index, Presentation::current_chunk
current_slide_index(p) == p.current_slide_index

current_chunk(p) == p.current_chunk

\* Presentation::jump_slide: go to the first chunk of the slide of that index,
\* clamped to the last slide; tells whether the cursor moved
jump_slide(p, index) ==
    LET target == Min(index, slide_count(p) - 1)
        q == [p EXCEPT !.current_slide_index = target, !.current_chunk = 0]
    IN [presentation |-> q, moved |-> q # p]

\* Presentation::jump_chunk: go to that chunk of the current slide, clamped to
\* its last chunk
jump_chunk(p, index) ==
    [p EXCEPT !.current_chunk =
                  Min(index, chunk_count(p, p.current_slide_index) - 1)]

\* Presentation::jump_first_slide, Presentation::jump_last_slide
jump_first_slide(p) == jump_slide(p, 0)

jump_last_slide(p) == jump_slide(p, slide_count(p) - 1)

\* Presentation::jump_next_slide: the next chunk of the slide, else the first
\* chunk of the next slide, else nothing
jump_next_slide(p) ==
    IF p.current_chunk < chunk_count(p, p.current_slide_index) - 1
    THEN [presentation |-> [p EXCEPT !.current_chunk = @ + 1], moved |-> TRUE]
    ELSE IF p.current_slide_index < slide_count(p) - 1
    THEN [presentation |-> [p EXCEPT !.current_slide_index = @ + 1,
                                     !.current_chunk = 0],
          moved |-> TRUE]
    ELSE [presentation |-> p, moved |-> FALSE]

\* Presentation::jump_previous_slide: the previous chunk of the slide, else
\* the previous slide with all its chunks shown, else nothing
jump_previous_slide(p) ==
    IF p.current_chunk > 0
    THEN [presentation |-> [p EXCEPT !.current_chunk = @ - 1], moved |-> TRUE]
    ELSE IF p.current_slide_index > 0
    THEN [presentation |->
              [p EXCEPT !.current_slide_index = @ - 1,
                        !.current_chunk = chunk_count(p, p.current_slide_index - 1) - 1],
          moved |-> TRUE]
    ELSE [presentation |-> p, moved |-> FALSE]

\* the chunks of the current slide that hold a widget
widget_chunks(p) ==
    { c \in 1..chunk_count(p, p.current_slide_index) :
          p.slides[p.current_slide_index + 1][c].widget # <<>> }

\* Presentation::render_slide_widgets: start_render on every on-demand
\* operation of the current slide; spawn[c] is what CodeExecuter::execute
\* comes to for the one of chunk c.  Tells whether any of them started.
render_slide_widgets(p, spawn) ==
    LET s == p.current_slide_index + 1
        started(c) == start_render(p.slides[s][c].widget[1], spawn[c])
        slide == [c \in 1..Len(p.slides[s]) |->
                     IF c \in widget_chunks(p)
                     THEN [p.slides[s][c] EXCEPT !.widget = <<started(c).inner>>]
                     ELSE p.slides[s][c]]
    IN [presentation |-> [p EXCEPT !.slides[s] = slide],
        started |-> \E c \in widget_chunks(p) : started(c).ret]

\* Presentation::widgets_rendered: poll_state on every on-demand operation of
\* the current slide; tells whether all of them are Rendered
widgets_rendered(p) ==
    LET s == p.current_slide_index + 1
        polled(c) == poll_state(p.slides[s][c].widget[1])
        slide == [c \in 1..Len(p.slides[s]) |->
                     IF c \in widget_chunks(p)
                     THEN [p.slides[s][c] EXCEPT !.widget = <<polled(c).inner>>]
                     ELSE p.slides[s][c]]
    IN [presentation |-> [p EXCEPT !.slides[s] = slide],
        all_rendered |-> \A c \in widget_chunks(p) : polled(c).ret = "Rendered"]

-----------------------------------------------------------------------------
(* The presentation differ, an external collaborator: the first slide and  *)
(* chunk at which two presentations diverge, as a position of the new one, *)
(* or nothing when they do not.                                            *)

\* the chunks' contents of a slide
contents(slide) == [c \in 1..Len(slide) |-> slide[c].content]

\* the modification of one pair of slides of index i: <<>> when their chunks
\* agree, else <<the position>>
slide_modification(original, updated, i) ==
    LET shared == Min(Len(original), Len(updated))
        differing == { c \in 1..shared : original[c].content # updated[c].content }
    IN IF differing # {}
       THEN <<[slide_index |-> i,
               chunk_index |-> (CHOOSE c \in differing :
                                    \A d \in differing : c <= d) - 1]>>
       ELSE IF Len(original) < Len(updated)
       THEN <<[slide_index |-> i, chunk_index |-> Len(original)]>>
       ELSE IF Len(original) > Len(updated)
       THEN <<[slide_index |-> i, chunk_index |-> Len(updated) - 1]>>
       ELSE <<>>

\* PresentationDiffer::find_first_modification
find_first_modification(original, updated) ==
    LET shared == Min(slide_count(original), slide_count(updated))
        modified == { s \in 1..shared :
                          slide_modification(original.slides[s], updated.slides[s],
                                             s - 1) # <<>> }
    IN IF modified # {}
       THEN LET s == CHOOSE s \in modified : \A t \in modified : s <= t
            IN slide_modification(original.slides[s], updated.slides[s], s - 1)
       ELSE IF slide_count(original) < slide_count(updated)
       THEN <<[slide_index |-> slide_count(original), chunk_index |-> 0]>>
       ELSE IF slide_count(original) > slide_count(updated)
       THEN <<[slide_index |-> slide_count(updated) - 1, chunk_index |-> 0]>>
       ELSE <<>>

-----------------------------------------------------------------------------
(* Presenter (presenter.rs).                                               *)

\* PresenterState (presenter.rs:205-214)
Empty == [tag |-> "Empty", error |-> "", presentation |-> <<>>]

Presenting(p) == [tag |-> "Presenting", error |-> "", presentation |-> <<p>>]

Failure(e, p) == [tag |-> "Failure", error |-> e, presentation |-> <<p>>]

\* PresenterState::presentation, presentation_mut and into_presentation;
\* all three panic on Empty, which callers here test first
presentation(st) == st.presentation[1]

\* PresentMode (presenter.rs:243-252)
PresentModes == {"Development", "Presentation", "Export"}

\* Command (input::source), as far as apply_command matches on it
CommandKinds == {"Reload", "HardReload", "Exit", "Redraw", "JumpNextSlide",
                 "JumpPreviousSlide", "JumpFirstSlide", "JumpLastSlide",
                 "JumpSlide", "RenderWidgets"}

Cmd(kind) == [kind |-> kind, number |-> 0]

JumpSlide(number) == [kind |-> "JumpSlide", number |-> number]

Commands ==
    { Cmd(k) : k \in CommandKinds \ {"JumpSlide"} }
    \cup { JumpSlide(n) : n \in 0..(MaxSlides + 1) }

\* the outcomes of TerminalDrawer::render_slide and render_error
RenderOutcomes == {"Ok", "TerminalTooSmall", "Io"}

\* a faulty saturating_sub: the slide number is taken for the index
saturating_sub_keeps_number(a, b) == a

\* u32::saturating_sub, as `number.saturating_sub(1)` (presenter.rs:140)
saturating_sub(a, b) == IF a > b THEN a - b ELSE 0

\* a faulty render: the result of the drawer is returned as it is
render_too_small_fails(st, outcome) ==
    [drawn |-> IF st.tag = "Presenting" THEN "slide" ELSE "error",
     result |-> outcome]

\* Presenter::render: what is drawn, and the result with a terminal that is
\* too small turned into success
render(st, outcome) ==
    [drawn |-> IF st.tag = "Presenting" THEN "slide" ELSE "error",
     result |-> IF outcome = "TerminalTooSmall" THEN "Ok" ELSE outcome]

\* a faulty update_widgets: the slide leaves the pending ones after the
\* first render, whatever its widgets have come to
update_widgets_forgetting(st, pend, first, second) ==
    LET p == presentation(st)
        current_index == current_slide_index(p)
        polled == widgets_rendered(p)
        st2 == [st EXCEPT !.presentation = <<polled.presentation>>]
    IN IF current_index \notin pend
       THEN [state |-> st, pending |-> pend, result |-> "Ok", renders |-> 0]
       ELSE IF render(st, first).result # "Ok"
       THEN [state |-> st, pending |-> pend,
             result |-> render(st, first).result, renders |-> 1]
       ELSE [state |-> st2, pending |-> pend \ {current_index},
             result |-> "Ok", renders |-> 1]

\* Presenter::update_widgets.  `first` and `second` are the outcomes of the
\* two renders it may ask for.
update_widgets(st, pend, first, second) ==
    LET p == presentation(st)
        current_index == current_slide_index(p)
        polled == widgets_rendered(p)
        st2 == [st EXCEPT !.presentation = <<polled.presentation>>]
    IN IF current_index \notin pend
       THEN [state |-> st, pending |-> pend, result |-> "Ok", renders |-> 0]
       ELSE IF render(st, first).result # "Ok"
       THEN [state |-> st, pending |-> pend,
             result |-> render(st, first).result, renders |-> 1]
       ELSE IF ~polled.all_rendered
       THEN [state |-> st2, pending |-> pend, result |-> "Ok", renders |-> 1]
       ELSE IF render(st2, second).result # "Ok"
       THEN [state |-> st2, pending |-> pend,
             result |-> render(st2, second).result, renders |-> 2]
       ELSE [state |-> st2, pending |-> pend \ {current_index},
             result |-> "Ok", renders |-> 2]

\* the part of apply_command that needs a presentation (presenter.rs:134-152)
apply_to_presentation(p, pend, cmd, spawn) ==
    LET moved(r) == [presentation |-> r.presentation, pending |-> pend,
                     effect |-> IF r.moved THEN "Redraw" ELSE "None"]
        widgets == render_slide_widgets(p, spawn)
    IN CASE cmd.kind = "Redraw" ->
                [presentation |-> p, pending |-> pend, effect |-> "Redraw"]
         [] cmd.kind = "JumpNextSlide" -> moved(jump_next_slide(p))
         [] cmd.kind = "JumpPreviousSlide" -> moved(jump_previous_slide(p))
         [] cmd.kind = "JumpFirstSlide" -> moved(jump_first_slide(p))
         [] cmd.kind = "JumpLastSlide" -> moved(jump_last_slide(p))
         [] cmd.kind = "JumpSlide" ->
                moved(jump_slide(p, saturating_sub(cmd.number, 1)))
         [] cmd.kind = "RenderWidgets" ->
                IF widgets.started
                THEN [presentation |-> widgets.presentation,
                      pending |-> pend \cup {current_slide_index(widgets.presentation)},
                      effect |-> "PollWidgets"]
                ELSE [presentation |-> widgets.presentation, pending |-> pend,
                      effect |-> "None"]

\* a faulty apply_command: the commands that need a presentation are applied
\* to the one a Failure holds as well
apply_command_ignores_state(st, pend, md, cmd, spawn) ==
    LET applied == apply_to_presentation(presentation(st), pend, cmd, spawn)
    IN CASE cmd.kind = "Reload" ->
                [state |-> st, pending |-> pend, effect |-> "Reload"]
         [] cmd.kind = "HardReload" ->
                [state |-> st, pending |-> pend, effect |-> "Reload"]
         [] cmd.kind = "Exit" ->
                [state |-> st, pending |-> pend, effect |-> "Exit"]
         [] OTHER ->
                [state |-> [st EXCEPT !.presentation = <<applied.presentation>>],
                 pending |-> applied.pending, effect |-> applied.effect]

\* a faulty apply_command: Exit is taken only while Presenting
apply_command_exit_needs_presentation(st, pend, md, cmd, spawn) ==
    LET applied == apply_to_presentation(presentation(st), pend, cmd, spawn)
    IN CASE cmd.kind = "Reload" ->
                [state |-> st, pending |-> pend, effect |-> "Reload"]
         [] cmd.kind = "HardReload" ->
                [state |-> st, pending |-> pend, effect |-> "Reload"]
         [] cmd.kind = "Exit" /\ st.tag = "Presenting" ->
                [state |-> st, pending |-> pend, effect |-> "Exit"]
         [] OTHER ->
                IF st.tag # "Presenting" \/ cmd.kind = "Exit"
                THEN [state |-> st, pending |-> pend, effect |-> "None"]
                ELSE [state |-> Presenting(applied.presentation),
                      pending |-> applied.pending, effect |-> applied.effect]

\* Presenter::apply_command.  HardReload's resources.clear() empties a cache
\* that only decides what a later load comes to, and a load here may come to
\* anything, so the cache itself is not part of the state.
apply_command(st, pend, md, cmd, spawn) ==
    LET applied == apply_to_presentation(presentation(st), pend, cmd, spawn)
    IN CASE cmd.kind = "Reload" ->
                [state |-> st, pending |-> pend, effect |-> "Reload"]
         [] cmd.kind = "HardReload" ->
                [state |-> st, pending |-> pend, effect |-> "Reload"]
         [] cmd.kind = "Exit" ->
                [state |-> st, pending |-> pend, effect |-> "Exit"]
         [] OTHER ->
                IF st.tag # "Presenting"
                THEN [state |-> st, pending |-> pend, effect |-> "None"]
                ELSE [state |-> Presenting(applied.presentation),
                      pending |-> applied.pending, effect |-> applied.effect]

\* a faulty reload: without a modification the new presentation starts over
reloaded_from_start(current, fresh) ==
    LET modification == find_first_modification(current, fresh)
    IN IF modification # <<>>
       THEN jump_chunk(jump_slide(fresh, modification[1].slide_index).presentation,
                       modification[1].chunk_index)
       ELSE fresh

\* the Ok arm of try_reload (presenter.rs:161-171): the new presentation
\* with its cursor set
reloaded(current, fresh) ==
    LET modification == find_first_modification(current, fresh)
    IN IF modification # <<>>
       THEN jump_chunk(jump_slide(fresh, modification[1].slide_index).presentation,
                       modification[1].chunk_index)
       ELSE jump_chunk(jump_slide(fresh, current_slide_index(current)).presentation,
                       current_chunk(current))

\* a faulty try_reload: the mode is not looked at
try_reload_in_every_mode(st, pend, md, outcome) ==
    LET l == load_presentation(outcome)
    IN IF l.ok
       THEN [state |-> Presenting(reloaded(presentation(st), l.presentation[1])),
             pending |-> {}, loaded |-> "ok"]
       ELSE [state |-> Failure(l.error, presentation(st)),
             pending |-> {}, loaded |-> l.error]

\* a faulty try_reload: a state that is a Failure already keeps its error
try_reload_failure_keeps_error(st, pend, md, outcome) ==
    LET l == load_presentation(outcome)
    IN IF md = "Presentation"
       THEN [state |-> st, pending |-> pend, loaded |-> "none"]
       ELSE IF l.ok
       THEN [state |-> Presenting(reloaded(presentation(st), l.presentation[1])),
             pending |-> {}, loaded |-> "ok"]
       ELSE [state |-> IF st.tag = "Failure" THEN st
                       ELSE Failure(l.error, presentation(st)),
             pending |-> {}, loaded |-> l.error]

\* a faulty try_reload: the state taken in the Err arm is not put back
try_reload_leaves_empty(st, pend, md, outcome) ==
    LET l == load_presentation(outcome)
    IN IF md = "Presentation"
       THEN [state |-> st, pending |-> pend, loaded |-> "none"]
       ELSE IF l.ok
       THEN [state |-> Presenting(reloaded(presentation(st), l.presentation[1])),
             pending |-> {}, loaded |-> "ok"]
       ELSE [state |-> Empty, pending |-> {}, loaded |-> l.error]

\* Presenter::try_reload.  `outcome` is what the file at `path` comes to.
try_reload(st, pend, md, outcome) ==
    LET l == load_presentation(outcome)
    IN IF md = "Presentation"
       THEN [state |-> st, pending |-> pend, loaded |-> "none"]
       ELSE IF l.ok
       THEN [state |-> Presenting(reloaded(presentation(st), l.presentation[1])),
             pending |-> {}, loaded |-> "ok"]
       ELSE [state |-> Failure(l.error, presentation(st)),
             pending |-> {}, loaded |-> l.error]

-----------------------------------------------------------------------------
(* Spec: Presenter::new followed by Presenter::present (presenter.rs:38-88) *)

\* the ListIterator variables, parked while another specification runs
ListIdle ==
    /\ list = [items |-> <<>>, start |-> 0]
    /\ iter = [remaining |-> <<>>, next_index |-> 0, current_depth |-> 0,
               saved_indexes |-> <<>>]
    /\ emitted = <<>>

\* the HighlightMutator variables, parked while another specification runs
MutatorIdle ==
    /\ context = [groups |-> <<>>, current |-> 0]
    /\ mutation = [call |-> "none", ret |-> "none"]
    /\ line_text = <<>>

\* the builder variables, parked while another specification runs
BuildIdle ==
    /\ builder = <<>>
    /\ elements = <<>>
    /\ built = "idle"
    /\ returned = <<>>

\* the table and code block variables, parked while another specification
\* runs
PreparersIdle ==
    /\ table_input = [header |-> <<>>, rows |-> <<>>]
    /\ table_lines = <<>>
    /\ code_input = [contents |-> <<>>, line_numbers |-> FALSE,
                     horizontal |-> 0, vertical |-> 0]
    /\ code_lines = <<>>

\* the RunCodeOperation variables, parked while Spec runs
RunIdle ==
    /\ op = NewInner
    /\ spawns = 0
    /\ call = "none"
    /\ ret = "none"
    /\ window = 1
    /\ shown = <<>>

\* Presenter::new, in any mode, about to run present()
Init ==
    /\ RunIdle
    /\ ListIdle
    /\ MutatorIdle
    /\ BuildIdle
    /\ PreparersIdle
    /\ pc = "load"
    /\ mode \in PresentModes
    /\ state = Empty
    /\ pending = {}
    /\ effect = "Idle"
    /\ loaded = "none"
    /\ rendered = "nothing"
    /\ result = "running"
    /\ source = <<>>

\* present() returns `value`
Return(value) ==
    /\ pc' = "done"
    /\ result' = value

\* no command is being applied in this step
NoCommandApplied ==
    /\ effect' = "Idle"
    /\ loaded' = "none"

\* line 60: the initial load_presentation and its `?`
Load ==
    /\ pc = "load"
    /\ \E outcome \in LoadOutcomes :
           LET l == load_presentation(outcome) IN
           /\ loaded' = IF l.ok THEN "ok" ELSE l.error
           /\ IF l.ok
              THEN /\ state' = Presenting(l.presentation[1])
                   /\ pc' = "drawer"
                   /\ UNCHANGED result
              ELSE /\ Return("load_error")
                   /\ UNCHANGED state
    /\ UNCHANGED <<mode, pending, effect, rendered>>
    /\ UNCHANGED offSession

\* line 62: TerminalDrawer::new and its `?`
NewDrawer ==
    /\ pc = "drawer"
    /\ \E ok \in BOOLEAN :
           IF ok THEN pc' = "render" /\ UNCHANGED result
                 ELSE Return("io_error")
    /\ NoCommandApplied
    /\ UNCHANGED <<mode, state, pending, rendered>>
    /\ UNCHANGED offSession

\* line 64: self.render(&mut drawer)?
Render ==
    /\ pc = "render"
    /\ IF state.tag = "Empty"
       THEN /\ Return("panic")
            /\ UNCHANGED rendered
       ELSE \E outcome \in RenderOutcomes :
               /\ rendered' = render(state, outcome).drawn
               /\ IF render(state, outcome).result = "Ok"
                  THEN pc' = "update_widgets_outer" /\ UNCHANGED result
                  ELSE Return("render_error")
    /\ NoCommandApplied
    /\ UNCHANGED <<mode, state, pending>>
    /\ UNCHANGED offSession

\* the outcomes of the n-th render update_widgets asks for, when it asks for
\* that many ("Ok" stands for a render that is not asked for)
RendersAsked(n) ==
    IF update_widgets(state, pending, "Ok", "Ok").renders >= n
    THEN RenderOutcomes ELSE {"Ok"}

\* a faulty update_widgets: it waits for the processes of the widgets of a
\* slide with pending widgets to end
UpdateWidgetsWaiting(at, next) ==
    /\ pc = at
    /\ IF state.tag = "Empty" THEN TRUE
       ELSE IF current_slide_index(presentation(state)) \notin pending THEN TRUE
       ELSE \A c \in widget_chunks(presentation(state)) :
               LET w == presentation(state).slides[
                            current_slide_index(presentation(state)) + 1][c].widget[1]
               IN IF w.handle = <<>> THEN TRUE
                  ELSE w.handle[1].status # "Running"
    /\ IF state.tag = "Empty"
       THEN /\ Return("panic")
            /\ UNCHANGED <<state, pending, rendered>>
       ELSE \E first \in RendersAsked(1), second \in RendersAsked(2) :
               LET r == update_widgets(state, pending, first, second) IN
               /\ state' = r.state
               /\ pending' = r.pending
               /\ rendered' = IF r.renders = 0 THEN rendered
                              ELSE render(state, first).drawn
               /\ IF r.result = "Ok"
                  THEN pc' = next /\ UNCHANGED result
                  ELSE Return("render_error")
    /\ NoCommandApplied
    /\ UNCHANGED mode
    /\ UNCHANGED offSession

\* self.update_widgets(&mut drawer)? at position `at`, going on at `next`
UpdateWidgets(at, next) ==
    /\ pc = at
    /\ IF state.tag = "Empty"
       THEN /\ Return("panic")
            /\ UNCHANGED <<state, pending, rendered>>
       ELSE \E first \in RendersAsked(1), second \in RendersAsked(2) :
               LET r == update_widgets(state, pending, first, second) IN
               /\ state' = r.state
               /\ pending' = r.pending
               /\ rendered' = IF r.renders = 0 THEN rendered
                              ELSE render(state, first).drawn
               /\ IF r.result = "Ok"
                  THEN pc' = next /\ UNCHANGED result
                  ELSE Return("render_error")
    /\ NoCommandApplied
    /\ UNCHANGED mode
    /\ UNCHANGED offSession

\* line 65
UpdateWidgetsOuter == UpdateWidgets("update_widgets_outer", "update_widgets_inner")

\* line 68
UpdateWidgetsInner == UpdateWidgets("update_widgets_inner", "try_next_command")

\* line 69: try_next_command gives None, the loop continues
NoCommand ==
    /\ pc = "try_next_command"
    /\ pc' = "update_widgets_inner"
    /\ NoCommandApplied
    /\ UNCHANGED <<mode, state, pending, rendered, result>>
    /\ UNCHANGED offSession

\* line 69: try_next_command fails, and its `?`
CommandSourceFails ==
    /\ pc = "try_next_command"
    /\ Return("io_error")
    /\ NoCommandApplied
    /\ UNCHANGED <<mode, state, pending, rendered>>
    /\ UNCHANGED offSession

\* what CodeExecuter::execute may come to for each widget a command starts
SpawnChoices(cmd) ==
    IF cmd.kind = "RenderWidgets" /\ state.tag = "Presenting"
    THEN [widget_chunks(presentation(state)) -> {"ok", "err"}]
    ELSE { <<>> }

\* a faulty match: the error of a reload's load is returned by present()
match_side_effect_reload_propagates(eff, ld) ==
    CASE eff = "Exit" -> [pc |-> "done", result |-> "ok"]
      [] eff = "Reload" ->
             IF ld \in {"none", "ok"}
             THEN [pc |-> "render", result |-> "running"]
             ELSE [pc |-> "done", result |-> "load_error"]
      [] eff = "Redraw" -> [pc |-> "render", result |-> "running"]
      [] eff = "PollWidgets" -> [pc |-> "update_widgets_inner", result |-> "running"]
      [] eff = "None" -> [pc |-> "update_widgets_inner", result |-> "running"]

\* the match on the side effect (presenter.rs:72-85): where present() goes
\* on and what it returns; `ld` is what try_reload's load came to
match_side_effect(eff, ld) ==
    CASE eff = "Exit" -> [pc |-> "done", result |-> "ok"]
      [] eff = "Reload" -> [pc |-> "render", result |-> "running"]
      [] eff = "Redraw" -> [pc |-> "render", result |-> "running"]
      [] eff = "PollWidgets" -> [pc |-> "update_widgets_inner", result |-> "running"]
      [] eff = "None" -> [pc |-> "update_widgets_inner", result |-> "running"]

\* lines 69-85: try_next_command gives `cmd`; apply_command and the match on
\* its side effect, try_reload included.  `outcome` is what the file at
\* `path` would come to if it were loaded now.
Applied(cmd, outcome) ==
    /\ pc = "try_next_command"
    /\ IF state.tag = "Empty" /\ cmd.kind # "Exit"
       THEN /\ Return("panic")
            /\ effect' = "Idle"
            /\ loaded' = "none"
            /\ UNCHANGED <<state, pending>>
       ELSE \E spawn \in SpawnChoices(cmd) :
               LET a == apply_command(state, pending, mode, cmd, spawn)
                   t == try_reload(a.state, a.pending, mode, outcome)
                   after == IF a.effect = "Reload"
                            THEN t
                            ELSE [state |-> a.state,
                                  pending |->
                                      IF a.effect = "PollWidgets"
                                      THEN a.pending \cup
                                           {current_slide_index(presentation(a.state))}
                                      ELSE a.pending,
                                  loaded |-> "none"]
               IN /\ effect' = a.effect
                  /\ state' = after.state
                  /\ pending' = after.pending
                  /\ loaded' = after.loaded
                  /\ pc' = match_side_effect(a.effect, after.loaded).pc
                  /\ result' = match_side_effect(a.effect, after.loaded).result
    /\ UNCHANGED <<mode, rendered>>

\* the same, in a session whose command source is not tracked
Apply(cmd, outcome) ==
    /\ Applied(cmd, outcome)
    /\ UNCHANGED offSession

\* the file as the commands that load nothing see it
NoLoad == [ok |-> FALSE, document |-> <<>>, error |-> ""]

\* the commands, by what they ask for
ExitCommand == Apply(Cmd("Exit"), NoLoad)

ReloadCommand ==
    \E kind \in {"Reload", "HardReload"}, outcome \in LoadOutcomes :
        Apply(Cmd(kind), outcome)

NavigationCommand ==
    \E cmd \in Commands :
        /\ cmd.kind \in {"JumpNextSlide", "JumpPreviousSlide", "JumpFirstSlide",
                         "JumpLastSlide", "JumpSlide"}
        /\ Apply(cmd, NoLoad)

RedrawCommand == Apply(Cmd("Redraw"), NoLoad)

RenderWidgetsCommand == Apply(Cmd("RenderWidgets"), NoLoad)

\* the process behind the widget of chunk c of slide s of the presentation
\* held by the session ends (the session does not look at what it printed)
WidgetProcessEnds ==
    /\ pc \in {"render", "update_widgets_outer", "update_widgets_inner",
               "try_next_command"}
    /\ state.tag # "Empty"
    /\ \E s \in 1..slide_count(presentation(state)) :
         \E c \in 1..Len(presentation(state).slides[s]) :
           LET w == presentation(state).slides[s][c].widget IN
           /\ w # <<>>
           /\ w[1].handle # <<>>
           /\ w[1].handle[1].status = "Running"
           /\ \E status \in {"Success", "Failure"} :
                state' = [state EXCEPT !.presentation[1].slides[s][c].widget[1].handle =
                                           <<process_ends(w[1].handle[1], status)>>]
    /\ UNCHANGED <<pc, mode, pending, effect, loaded, rendered, result>>
    /\ UNCHANGED offSession

Next ==
    \/ Load
    \/ NewDrawer
    \/ Render
    \/ UpdateWidgetsOuter
    \/ UpdateWidgetsInner
    \/ NoCommand
    \/ CommandSourceFails
    \/ ExitCommand
    \/ ReloadCommand
    \/ NavigationCommand
    \/ RedrawCommand
    \/ RenderWidgetsCommand
    \/ WidgetProcessEnds

Spec == Init /\ [][Next]_vars

-----------------------------------------------------------------------------
(* SpecLive: the session with the commands its command source holds, and   *)
(* the loop of present() running on (presenter.rs:59-88)                   *)

\* the most commands the command source holds at a time
MaxQueued == 1

\* a command arrives at the command source
Deliver(cmd) ==
    /\ pc # "done"
    /\ Len(source) < MaxQueued
    /\ source' = Append(source, cmd)
    /\ UNCHANGED <<pc, mode, state, pending, effect, loaded, rendered, result>>
    /\ UNCHANGED offLive

\* line 69: try_next_command gives None, for the source holds no command
NoCommandDelivered ==
    /\ source = <<>>
    /\ NoCommand

\* lines 69-85: try_next_command gives the first command the source holds
TakeCommand ==
    /\ source # <<>>
    /\ \E outcome \in IF Head(source).kind \in {"Reload", "HardReload"}
                      THEN LoadOutcomes ELSE {NoLoad} :
           Applied(Head(source), outcome)
    /\ source' = Tail(source)
    /\ UNCHANGED offLive

DeliverCommand == \E cmd \in Commands : Deliver(cmd)

\* a step of present()
LoopStep ==
    \/ Load
    \/ NewDrawer
    \/ Render
    \/ UpdateWidgetsOuter
    \/ UpdateWidgetsInner
    \/ NoCommandDelivered
    \/ CommandSourceFails
    \/ TakeCommand

NextLive ==
    \/ Load
    \/ NewDrawer
    \/ Render
    \/ UpdateWidgetsOuter
    \/ UpdateWidgetsInner
    \/ NoCommandDelivered
    \/ CommandSourceFails
    \/ TakeCommand
    \/ DeliverCommand
    \/ WidgetProcessEnds

\* present() is the one thread of the program and none of its steps waits:
\* it goes on for as long as it has not returned.  The commands and the
\* processes behind the widgets come when they come, or never.
SpecLive == Init /\ [][NextLive]_vars /\ WF_vars(LoopStep)

-----------------------------------------------------------------------------
(* SpecRun: one RunCodeOperation and everything that may be called on it.  *)

\* the session variables, parked while SpecRun runs
SessionIdle ==
    /\ pc = "idle"
    /\ mode = "Development"
    /\ state = [tag |-> "Empty", error |-> "", presentation |-> <<>>]
    /\ pending = {}
    /\ effect = "Idle"
    /\ loaded = "none"
    /\ rendered = "nothing"
    /\ result = "running"
    /\ source = <<>>

\* RunCodeOperation::new (builder.rs:961-965)
InitRun ==
    /\ SessionIdle
    /\ ListIdle
    /\ MutatorIdle
    /\ BuildIdle
    /\ PreparersIdle
    /\ op = NewInner
    /\ spawns = 0
    /\ call = "new"
    /\ ret = "none"
    /\ window = 1
    /\ shown = <<>>

\* a caller calls start_render; CodeExecuter::execute succeeds or fails
StartRender ==
    \E spawn \in {"ok", "err"} :
        LET r == start_render(op, spawn) IN
        /\ op' = r.inner
        /\ spawns' = IF r.executed THEN spawns + 1 ELSE spawns
        /\ call' = "start_render"
        /\ ret' = IF r.ret THEN "true" ELSE "false"
        /\ UNCHANGED <<window, shown>>
        /\ UNCHANGED offRun

\* a caller calls poll_state
PollState ==
    LET r == poll_state(op) IN
    /\ op' = r.inner
    /\ call' = "poll_state"
    /\ ret' = r.ret
    /\ UNCHANGED <<spawns, window, shown>>
    /\ UNCHANGED offRun

\* the drawer calls as_render_operations with the terminal's dimensions
RenderOperation ==
    \E columns \in 1..MaxColumns :
        /\ shown' = as_render_operations(op, columns)
        /\ window' = columns
        /\ call' = "as_render_operations"
        /\ ret' = "operations"
        /\ UNCHANGED <<op, spawns>>
        /\ UNCHANGED offRun

\* the process behind the handle prints a line
ProcessPrints ==
    /\ op.handle # <<>>
    /\ op.handle[1].status = "Running"
    /\ Len(op.handle[1].output) < MaxOutput
    /\ \E line \in ProcessLines :
           op' = [op EXCEPT !.handle = <<process_prints(op.handle[1], line)>>]
    /\ UNCHANGED <<spawns, call, ret, window, shown>>
    /\ UNCHANGED offRun

\* the process behind the handle ends
ProcessEnds ==
    /\ op.handle # <<>>
    /\ op.handle[1].status = "Running"
    /\ \E status \in {"Success", "Failure"} :
           op' = [op EXCEPT !.handle = <<process_ends(op.handle[1], status)>>]
    /\ UNCHANGED <<spawns, call, ret, window, shown>>
    /\ UNCHANGED offRun

NextRun ==
    \/ StartRender
    \/ PollState
    \/ RenderOperation
    \/ ProcessPrints
    \/ ProcessEnds

SpecRun == InitRun /\ [][NextRun]_vars

-----------------------------------------------------------------------------
(* ListIterator (builder.rs:1089-1137): the numbering of list items.       *)

\* the deepest item of a list
MaxDepth == 2

\* the most items of a list
MaxItems == 4

\* the largest index a list may be started from
MaxStart == 1

\* ListItemType
ListItemTypes == {"Unordered", "OrderedParens", "OrderedPeriod"}

\* a ListItem, as far as the builder looks at it
ListItem(depth, item_type) == [depth |-> depth, item_type |-> item_type]

\* ListIterator::new
NewListIterator(items, next_index) ==
    [remaining |-> items, next_index |-> next_index, current_depth |-> 0,
     saved_indexes |-> <<>>]

\* the loop of lines 1122-1124: `levels` times, pop a saved index, or take 0
\* when there is none; gives the index recovered and the indexes left
RECURSIVE recover(_, _, _)
recover(next_index, saved, levels) ==
    IF levels = 0
    THEN [next_index |-> next_index, saved_indexes |-> saved]
    ELSE IF saved = <<>>
    THEN recover(0, saved, levels - 1)
    ELSE recover(saved[Len(saved)], SubSeq(saved, 1, Len(saved) - 1), levels - 1)

\* ListIterator::next: the iterator afterwards and the Option it returns
list_iterator_next(it) ==
    IF it.remaining = <<>>
    THEN [iter |-> it, item |-> <<>>]
    ELSE LET head == Head(it.remaining)
             moved == IF head.depth > it.current_depth
                      THEN [next_index |-> 0,
                            saved_indexes |-> Append(it.saved_indexes, it.next_index)]
                      ELSE IF head.depth < it.current_depth
                      THEN recover(it.next_index, it.saved_indexes,
                                   it.current_depth - head.depth)
                      ELSE [next_index |-> it.next_index,
                            saved_indexes |-> it.saved_indexes]
         IN [iter |-> [remaining |-> Tail(it.remaining),
                       next_index |-> moved.next_index + 1,
                       current_depth |-> head.depth,
                       saved_indexes |-> moved.saved_indexes],
             item |-> <<[index |-> moved.next_index, item |-> head]>>]

\* `for item in iter`: every IndexedListItem the iterator yields, in order
RECURSIVE collect(_)
collect(it) ==
    LET r == list_iterator_next(it)
    IN IF r.item = <<>> THEN <<>> ELSE r.item \o collect(r.iter)

\* the lists an iterator may be given: up to MaxItems items of any depths
Lists ==
    UNION { [1..n -> { ListItem(d, "Unordered") : d \in 0..MaxDepth }] :
                n \in 0..MaxItems }

\* ListIterator::new over any list, from any start index
InitList ==
    /\ SessionIdle
    /\ RunIdle
    /\ MutatorIdle
    /\ BuildIdle
    /\ PreparersIdle
    /\ list \in { [items |-> l, start |-> n] : l \in Lists, n \in 0..MaxStart }
    /\ iter = NewListIterator(list.items, list.start)
    /\ emitted = <<>>

\* next() returns an item
IterNext ==
    LET r == list_iterator_next(iter) IN
    /\ r.item # <<>>
    /\ iter' = r.iter
    /\ emitted' = emitted \o r.item
    /\ UNCHANGED list
    /\ UNCHANGED offList

NextList == IterNext

SpecList == InitList /\ [][NextList]_vars

-----------------------------------------------------------------------------
(* HighlightMutator and HighlightedLine (builder.rs:679-761): the cursor   *)
(* over the highlight groups of a code block and the lines that read it.   *)

\* the most highlight groups of a code block
MaxGroups == 3

\* the most lines of a code block
MaxLines == 2

\* the groups a code block may declare: each the set of the line numbers
\* it highlights
HighlightGroups == { {1}, {1, 2} }

\* HighlightGroup::contains
group_contains(group, number) == number \in group

\* the HighlightContext highlight_lines builds (builder.rs:499-504)
NewHighlightContext(groups) == [groups |-> groups, current |-> 0]

\* ChunkMutator::mutate_next
mutate_next(ctx) ==
    IF ctx.current = Len(ctx.groups) - 1
    THEN [context |-> ctx, ret |-> FALSE]
    ELSE [context |-> [ctx EXCEPT !.current = @ + 1], ret |-> TRUE]

\* a faulty mutate_previous: it reports a move at the first group too
mutate_previous_always_moves(ctx) ==
    IF ctx.current = 0
    THEN [context |-> ctx, ret |-> TRUE]
    ELSE [context |-> [ctx EXCEPT !.current = @ - 1], ret |-> TRUE]

\* ChunkMutator::mutate_previous
mutate_previous(ctx) ==
    IF ctx.current = 0
    THEN [context |-> ctx, ret |-> FALSE]
    ELSE [context |-> [ctx EXCEPT !.current = @ - 1], ret |-> TRUE]

\* a faulty reset_mutations: the cursor only goes one group back
reset_mutations_one_back(ctx) ==
    [ctx EXCEPT !.current = IF @ = 0 THEN 0 ELSE @ - 1]

\* ChunkMutator::reset_mutations
reset_mutations(ctx) == [ctx EXCEPT !.current = 0]

\* ChunkMutator::apply_all_mutations
apply_all_mutations(ctx) == [ctx EXCEPT !.current = Len(ctx.groups) - 1]

\* ChunkMutator::mutations
mutations(ctx) == <<ctx.current, Len(ctx.groups)>>

\* a faulty as_render_operations of HighlightedLine: the line is looked up in
\* the first group whatever the current one is
highlighted_line_text_first_group(ctx, line_number) ==
    LET group == ctx.groups[1]
        needs_highlight == IF line_number = <<>> THEN FALSE
                           ELSE group_contains(group, line_number[1])
    IN IF needs_highlight THEN "highlighted" ELSE "not_highlighted"

\* HighlightedLine::as_render_operations: which of the two renderings of the
\* line is shown; line_number is an Option
highlighted_line_text(ctx, line_number) ==
    LET group == ctx.groups[ctx.current + 1]
        needs_highlight == IF line_number = <<>> THEN FALSE
                           ELSE group_contains(group, line_number[1])
    IN IF needs_highlight THEN "highlighted" ELSE "not_highlighted"

\* push_code has built a HighlightMutator: more than one group
\* (builder.rs:478-480)
InitMutator ==
    /\ SessionIdle
    /\ RunIdle
    /\ ListIdle
    /\ BuildIdle
    /\ PreparersIdle
    /\ context \in { NewHighlightContext(g) :
                       g \in UNION { [1..n -> HighlightGroups] : n \in 2..MaxGroups } }
    /\ mutation = [call |-> "none", ret |-> "none"]
    /\ line_text = <<>>

MutateNext ==
    LET r == mutate_next(context) IN
    /\ context' = r.context
    /\ mutation' = [call |-> "mutate_next", ret |-> r.ret]
    /\ UNCHANGED line_text
    /\ UNCHANGED offMutator

MutatePrevious ==
    LET r == mutate_previous(context) IN
    /\ context' = r.context
    /\ mutation' = [call |-> "mutate_previous", ret |-> r.ret]
    /\ UNCHANGED line_text
    /\ UNCHANGED offMutator

ResetMutations ==
    /\ context' = reset_mutations(context)
    /\ mutation' = [call |-> "reset_mutations", ret |-> "none"]
    /\ UNCHANGED line_text
    /\ UNCHANGED offMutator

ApplyAllMutations ==
    /\ context' = apply_all_mutations(context)
    /\ mutation' = [call |-> "apply_all_mutations", ret |-> "none"]
    /\ UNCHANGED line_text
    /\ UNCHANGED offMutator

Mutations ==
    /\ mutation' = [call |-> "mutations", ret |-> mutations(context)]
    /\ UNCHANGED <<context, line_text>>
    /\ UNCHANGED offMutator

\* the drawer renders one line of the block: a padding line (no number) or
\* the line of some number
RenderLine ==
    /\ \E line_number \in {<<>>} \cup { <<n>> : n \in 1..MaxLines } :
           line_text' = [line_number |-> line_number,
                         text |-> highlighted_line_text(context, line_number)]
    /\ UNCHANGED <<context, mutation>>
    /\ UNCHANGED offMutator

NextMutator ==
    \/ MutateNext
    \/ MutatePrevious
    \/ ResetMutations
    \/ ApplyAllMutations
    \/ Mutations
    \/ RenderLine

SpecMutator == InitMutator /\ [][NextMutator]_vars

-----------------------------------------------------------------------------
(* PresentationBuilder (builder.rs:45-606).  A RenderOperation is a record *)
(* whose field `op` names the variant; what the theme, the highlighter and *)
(* the texts put into an operation is left out where the builder itself    *)
(* never looks at it again.                                                *)

\* the most elements of a document, its front matter aside
MaxElements == 3

\* a RenderOperation without fields the builder reads
Op(name) == [op |-> name]

\* a chunk of a Text
StyledText(text) == [text |-> text]

\* RenderOperation::RenderText of a text, the sequence of its chunks
RenderText(text) == [op |-> "RenderText", text |-> text]

\* the themes and options a builder may be made with: the theme's title
\* style (padding_top, padding_bottom, separator), code.padding (vertical,
\* horizontal) and intro_slide.author.positioning, and
\* options.allow_mutations
Configurations ==
    { [padding_top |-> 0, padding_bottom |-> 0, separator |-> FALSE,
       vertical_padding |-> 0, horizontal_padding |-> 0,
       author_positioning |-> "BelowTitle",
       allow_mutations |-> TRUE],
      [padding_top |-> 1, padding_bottom |-> 1, separator |-> TRUE,
       vertical_padding |-> 1, horizontal_padding |-> 1,
       author_positioning |-> "PageBottom",
       allow_mutations |-> FALSE] }

\* the PresentationBuilderOptions Presenter::load_presentation hands to the
\* builder (presenter.rs:182-185): no mutations when exporting
PresentationBuilderOptions(present_mode) ==
    [allow_mutations |-> present_mode # "Export"]

\* LayoutState (builder.rs:772-783)
LayoutDefault == [tag |-> "Default"]

InLayout(columns_count) == [tag |-> "InLayout", columns_count |-> columns_count]

InColumn(column, columns_count) ==
    [tag |-> "InColumn", column |-> column, columns_count |-> columns_count]

\* LastElement (builder.rs:785-792), an Option of the last index: <<>> is Any
LastElementAny == <<>>

LastElementList(last_index) == <<last_index>>

\* SlideState::default() (builder.rs:763-770)
DefaultSlideState ==
    [ignore_element_line_break |-> FALSE,
     needs_enter_column |-> FALSE,
     last_chunk_ended_in_list |-> FALSE,
     last_element |-> LastElementAny,
     layout |-> LayoutDefault]

\* PresentationBuilder::new
NewBuilder(configuration) ==
    [slide_chunks |-> <<>>,
     chunk_operations |-> <<>>,
     chunk_mutators |-> <<>>,
     slides |-> <<>>,
     theme |-> configuration,
     slide_state |-> DefaultSlideState,
     footer_context |-> [total_slides |-> 0, author |-> ""],
     options |-> [allow_mutations |-> configuration.allow_mutations]]

\* self.chunk_operations.extend(operations)
push_operations(b, operations) ==
    [b EXCEPT !.chunk_operations = @ \o operations]

\* PresentationBuilder::push_line_break
push_line_break(b) == push_operations(b, <<Op("RenderLineBreak")>>)

\* n times push_line_break
RECURSIVE push_line_breaks(_, _)
push_line_breaks(b, n) ==
    IF n = 0 THEN b ELSE push_line_breaks(push_line_break(b), n - 1)

\* PresentationBuilder::push_text and push_aligned_text: nothing is pushed
\* for a text with no chunks; a text is the sequence of its chunks
push_text(b, text) ==
    IF text = <<>> THEN b ELSE push_operations(b, <<RenderText(text)>>)

\* PresentationBuilder::push_slide_prelude
push_slide_prelude(b) ==
    push_line_break(push_operations(b, <<Op("SetColors"), Op("ClearScreen"),
                                          Op("ApplyMargin")>>))

\* SlideChunk::new
SlideChunk(operations, mutators) ==
    [operations |-> operations, mutators |-> mutators]

\* PresentationBuilder::generate_footer
generate_footer(b) ==
    <<Op("ExitLayout"), Op("PopMargin"),
      [op |-> "RenderDynamic", dynamic |-> "FooterGenerator",
       current_slide |-> Len(b.slides)]>>

\* a faulty terminate_slide: the next slide gets no prelude
terminate_slide_without_prelude(b) ==
    LET footer == generate_footer(b)
        slide_chunks == Append(b.slide_chunks,
                               SlideChunk(b.chunk_operations, b.chunk_mutators))
        sealed == [b EXCEPT !.chunk_operations = <<>>,
                            !.chunk_mutators = <<>>,
                            !.slide_chunks = <<>>,
                            !.slides = Append(@, [chunks |-> slide_chunks,
                                                  footer |-> footer])]
    IN [sealed EXCEPT !.slide_state = DefaultSlideState]

\* a faulty terminate_slide: the state of the slide is kept
terminate_slide_keeps_state(b) ==
    LET footer == generate_footer(b)
        slide_chunks == Append(b.slide_chunks,
                               SlideChunk(b.chunk_operations, b.chunk_mutators))
        sealed == [b EXCEPT !.chunk_operations = <<>>,
                            !.chunk_mutators = <<>>,
                            !.slide_chunks = <<>>,
                            !.slides = Append(@, [chunks |-> slide_chunks,
                                                  footer |-> footer])]
    IN push_slide_prelude(sealed)

\* PresentationBuilder::terminate_slide
terminate_slide(b) ==
    LET footer == generate_footer(b)
        slide_chunks == Append(b.slide_chunks,
                               SlideChunk(b.chunk_operations, b.chunk_mutators))
        sealed == [b EXCEPT !.chunk_operations = <<>>,
                            !.chunk_mutators = <<>>,
                            !.slide_chunks = <<>>,
                            !.slides = Append(@, [chunks |-> slide_chunks,
                                                  footer |-> footer])]
    IN [push_slide_prelude(sealed) EXCEPT !.slide_state = DefaultSlideState]

\* a faulty process_pause: the mutators are cloned into the sealed chunk and
\* stay with the builder
process_pause_keeps_mutators(b) ==
    [b EXCEPT !.slide_state.last_chunk_ended_in_list =
                  (b.slide_state.last_element # LastElementAny),
              !.chunk_operations = <<>>,
              !.slide_chunks = Append(@, SlideChunk(b.chunk_operations,
                                                    b.chunk_mutators))]

\* PresentationBuilder::process_pause
process_pause(b) ==
    [b EXCEPT !.slide_state.last_chunk_ended_in_list =
                  (b.slide_state.last_element # LastElementAny),
              !.chunk_operations = <<>>,
              !.chunk_mutators = <<>>,
              !.slide_chunks = Append(@, SlideChunk(b.chunk_operations,
                                                    b.chunk_mutators))]

\* a faulty push_slide_title: the line break of the element is not ignored
push_slide_title_not_ignoring(b, text) ==
    LET padded == push_line_breaks(b, b.theme.padding_top)
        titled == push_line_break(push_text(padded, text))
        spaced == push_line_breaks(titled, b.theme.padding_bottom)
        separated == IF b.theme.separator
                     THEN push_operations(spaced,
                              <<[op |-> "RenderDynamic", dynamic |-> "RenderSeparator"]>>)
                     ELSE spaced
    IN push_line_break(separated)

\* PresentationBuilder::push_slide_title
push_slide_title(b, text) ==
    LET padded == push_line_breaks(b, b.theme.padding_top)
        titled == push_line_break(push_text(padded, text))
        spaced == push_line_breaks(titled, b.theme.padding_bottom)
        separated == IF b.theme.separator
                     THEN push_operations(spaced,
                              <<[op |-> "RenderDynamic", dynamic |-> "RenderSeparator"]>>)
                     ELSE spaced
    IN [push_line_break(separated) EXCEPT
            !.slide_state.ignore_element_line_break = TRUE]

\* PresentationBuilder::push_heading
push_heading(b, text) == push_line_break(push_text(b, text))

\* PresentationBuilder::push_paragraph: a text and a line break for every
\* ParagraphElement::Text, nothing for a ParagraphElement::LineBreak
RECURSIVE push_paragraph(_, _)
push_paragraph(b, paragraph) ==
    IF paragraph = <<>> THEN b
    ELSE push_paragraph(
             IF Head(paragraph).kind = "LineBreak" THEN b
             ELSE push_line_break(push_text(b, Head(paragraph).text)),
             Tail(paragraph))

\* PresentationBuilder::push_separator
push_separator(b) ==
    push_operations(b, <<[op |-> "RenderDynamic", dynamic |-> "RenderSeparator"],
                         Op("RenderLineBreak")>>)

\* a faulty push_image: the colors are not set again after the image
push_image_keeps_colors(b, found) ==
    IF found
    THEN [builder |-> push_operations(b, <<Op("RenderImage")>>), error |-> ""]
    ELSE [builder |-> b, error |-> "LoadImage"]

\* PresentationBuilder::push_image; `found` tells whether Resources::image
\* loads the image
push_image(b, found) ==
    IF found
    THEN [builder |-> push_operations(b, <<Op("RenderImage"), Op("SetColors")>>),
          error |-> ""]
    ELSE [builder |-> b, error |-> "LoadImage"]

\* the loop of push_block_quote: a preformatted line and a line break for
\* each of the `lines` lines
RECURSIVE push_quote_lines(_, _)
push_quote_lines(b, lines) ==
    IF lines = 0 THEN b
    ELSE push_quote_lines(
             push_line_break(push_operations(b, <<Op("RenderPreformattedLine")>>)),
             lines - 1)

\* PresentationBuilder::push_block_quote
push_block_quote(b, lines) ==
    push_operations(push_quote_lines(push_operations(b, <<Op("SetColors")>>), lines),
                    <<Op("SetColors")>>)

\* str::repeat
RECURSIVE repeat(_, _)
repeat(text, n) == IF n <= 0 THEN "" ELSE text \o repeat(text, n - 1)

\* u32::ilog10, of a number above 0
RECURSIVE ilog10(_)
ilog10(n) == IF n < 10 THEN 0 ELSE 1 + ilog10(n \div 10)

\* usize::to_string
RECURSIVE to_string(_)
to_string(n) ==
    IF n < 10 THEN SubSeq("0123456789", n + 1, n + 1)
    ELSE to_string(n \div 10) \o to_string(n % 10)

\* CodeLine::empty
EmptyCodeLine ==
    [prefix |-> "", code |-> "\n", suffix |-> "", line_number |-> <<>>]

\* a faulty push_lines: the numbers are not padded to one width
push_lines_unpadded(code, horizontal_padding) ==
    LET padding == repeat(" ", horizontal_padding)
    IN [n \in 1..Len(code.contents) |->
           [prefix |-> IF code.line_numbers
                       THEN padding \o to_string(n) \o " "
                       ELSE padding,
            code |-> code.contents[n] \o "\n",
            suffix |-> padding,
            line_number |-> <<n>>]]

\* CodePreparer::push_lines: code.contents is the sequence of the lines of
\* the block, empty for empty contents
push_lines(code, horizontal_padding) ==
    LET padding == repeat(" ", horizontal_padding)
        total_lines_width == ilog10(Len(code.contents))
    IN [n \in 1..Len(code.contents) |->
           LET index == n - 1
               line_number == index + 1
               number_padding == total_lines_width - ilog10(line_number)
           IN [prefix |-> IF code.line_numbers
                          THEN padding \o repeat(" ", number_padding)
                                   \o to_string(line_number) \o " "
                          ELSE padding,
               code |-> code.contents[n] \o "\n",
               suffix |-> padding,
               line_number |-> <<index + 1>>]]

\* CodePreparer::prepare, for the theme's code.padding
prepare(theme, code) ==
    LET vertical == IF theme.vertical_padding > 0 THEN <<EmptyCodeLine>> ELSE <<>>
    IN vertical \o push_lines(code, theme.horizontal_padding) \o vertical

\* PresentationBuilder::push_code_execution
push_code_execution(b) ==
    push_operations(b, <<[op |-> "RenderOnDemand", operation |-> NewInner]>>)

\* a faulty push_code: the groups of the block are taken, and a mutator made
\* for more than one, whatever the options say
push_code_always_mutable(b, code) ==
    LET lines == prepare(b.theme, code)
        groups == code.highlight_groups
        highlighted == push_operations(b,
                           [i \in 1..Len(lines) |->
                               [op |-> "RenderDynamic", dynamic |-> "HighlightedLine",
                                line_number |-> lines[i].line_number,
                                context |-> NewHighlightContext(groups)]])
        mutated == IF Len(groups) > 1
                   THEN [highlighted EXCEPT
                            !.chunk_mutators = Append(@, NewHighlightContext(groups))]
                   ELSE highlighted
    IN IF code.execute THEN push_code_execution(mutated) ELSE mutated

\* PresentationBuilder::push_code, with highlight_lines: a HighlightedLine
\* per prepared line with the context of the block, a HighlightMutator over
\* more than one group when mutations are allowed, a RunCodeOperation for
\* code to execute
push_code(b, code) ==
    LET lines == prepare(b.theme, code)
        groups == IF b.options.allow_mutations THEN code.highlight_groups
                  ELSE << 1..MaxLines >>
        highlighted == push_operations(b,
                           [i \in 1..Len(lines) |->
                               [op |-> "RenderDynamic", dynamic |-> "HighlightedLine",
                                line_number |-> lines[i].line_number,
                                context |-> NewHighlightContext(groups)]])
        mutated == IF b.options.allow_mutations /\ Len(groups) > 1
                   THEN [highlighted EXCEPT
                            !.chunk_mutators = Append(@, NewHighlightContext(groups))]
                   ELSE highlighted
    IN IF code.execute THEN push_code_execution(mutated) ELSE mutated

\* the display width of a text of one-column characters, as all the texts
\* of the model are
width(text) == Len(text)

\* the greatest of the numbers, None (<<>>) when there is none
RECURSIVE max(_)
max(numbers) ==
    IF numbers = <<>> THEN <<>>
    ELSE LET rest == max(Tail(numbers))
         IN IF rest = <<>> \/ Head(numbers) >= rest[1]
            THEN <<Head(numbers)>>
            ELSE rest

\* Table::columns
table_columns(table) == Len(table.header)

\* Table::iter_column: the cell of the header, then the cell of each row;
\* `column` counts from 0
iter_column(table, column) ==
    <<table.header[column + 1]>>
        \o [r \in 1..Len(table.rows) |-> table.rows[r][column + 1]]

\* faulty widths: the header is left out of the maximum
table_widths_of_rows(table) ==
    [c \in 1..table_columns(table) |->
        LET cells == Tail(iter_column(table, c - 1))
            widest == max([n \in 1..Len(cells) |-> width(cells[n])])
        IN IF widest = <<>> THEN 0 ELSE widest[1]]

\* the widths push_table computes (builder.rs:557-559)
table_widths(table) ==
    [c \in 1..table_columns(table) |->
        LET cells == iter_column(table, c - 1)
            widest == max([n \in 1..Len(cells) |-> width(cells[n])])
        IN IF widest = <<>> THEN 0 ELSE widest[1]]

\* PresentationBuilder::prepare_table_row, from the cell of index `column`
\* on; " | " stands for the run with the vertical box-drawing character
RECURSIVE prepare_table_cells(_, _, _)
prepare_table_cells(row, widths, column) ==
    IF column >= Len(row) THEN <<>>
    ELSE LET text == row[column + 1]
             text_length == width(text)
             cell_width == widths[column + 1]
         IN (IF column > 0 THEN <<StyledText(" | ")>> ELSE <<>>)
            \o <<StyledText(text)>>
            \o (IF text_length < cell_width
                THEN <<StyledText(repeat(" ", cell_width - text_length))>>
                ELSE <<>>)
            \o prepare_table_cells(row, widths, column + 1)

\* PresentationBuilder::prepare_table_row
prepare_table_row(row, widths) == prepare_table_cells(row, widths, 0)

\* the separator of push_table (builder.rs:564-577); "+" stands for the
\* crossing box-drawing character and "-" for the horizontal one
table_separator(widths) ==
    [n \in 1..Len(widths) |->
        LET index == n - 1
            margin == IF index > 0 /\ index < Len(widths) - 1 THEN 2 ELSE 1
        IN StyledText((IF index > 0 THEN "+" ELSE "")
                      \o repeat("-", widths[n] + margin))]

\* the loop of push_table over the rows
RECURSIVE push_table_rows(_, _, _)
push_table_rows(b, rows, widths) ==
    IF rows = <<>> THEN b
    ELSE push_table_rows(
             push_line_break(push_text(b, prepare_table_row(Head(rows), widths))),
             Tail(rows), widths)

\* PresentationBuilder::push_table: the header, the separator and the rows,
\* each a text and a line break
push_table(b, table) ==
    LET widths == table_widths(table)
    IN push_table_rows(
           push_line_break(push_text(
               push_line_break(push_text(b, prepare_table_row(table.header, widths))),
               table_separator(widths))),
           table.rows, widths)

\* the prefix push_list_item makes: the padding and the bullet of the depth,
\* or the number and its delimiter
list_item_prefix(index, item) ==
    [padding_length |-> (item.depth + 1) * 3,
     number |-> IF item.item_type = "Unordered" THEN <<>> ELSE <<index + 1>>,
     delimiter |-> CASE item.item_type = "Unordered" ->
                          IF item.depth = 0 THEN "bullet"
                          ELSE IF item.depth = 1 THEN "white bullet"
                          ELSE "small square"
                     [] item.item_type = "OrderedParens" -> ") "
                     [] item.item_type = "OrderedPeriod" -> ". "]

\* a faulty push_list_item: the index of an item of depth 0 is not kept
push_list_item_forgetting(b, index, item) ==
    push_line_break(
        push_text(push_text(b, <<list_item_prefix(index, item)>>),
                  <<StyledText("item contents")>>))

\* PresentationBuilder::push_list_item
push_list_item(b, index, item) ==
    LET pushed == push_line_break(
                      push_text(push_text(b, <<list_item_prefix(index, item)>>),
                                <<StyledText("item contents")>>))
    IN IF item.depth = 0
       THEN [pushed EXCEPT !.slide_state.last_element = LastElementList(index)]
       ELSE pushed

\* the loop of push_list over the items the iterator yields
RECURSIVE push_list_items(_, _)
push_list_items(b, indexed) ==
    IF indexed = <<>> THEN b
    ELSE push_list_items(push_list_item(b, Head(indexed).index, Head(indexed).item),
                         Tail(indexed))

\* SlideChunk::pop_last on the last chunk of slide_chunks
pop_last(slide_chunks) ==
    [slide_chunks EXCEPT ![Len(slide_chunks)].operations =
                             SubSeq(@, 1, Len(@) - 1)]

\* a faulty push_list: every list is numbered from 0
push_list_restarts(b, list_items) ==
    LET continues == /\ b.slide_chunks # <<>>
                     /\ b.slide_chunks[Len(b.slide_chunks)].operations # <<>>
                     /\ LET operations == b.slide_chunks[Len(b.slide_chunks)].operations
                        IN operations[Len(operations)] = Op("RenderLineBreak")
                     /\ b.slide_state.last_chunk_ended_in_list
                     /\ b.chunk_operations = <<>>
        popped == IF continues
                  THEN [b EXCEPT !.slide_chunks = pop_last(@)]
                  ELSE b
    IN push_list_items(popped, collect(NewListIterator(list_items, 0)))

\* a faulty push_list: the line break of the sealed chunk is removed
\* whatever the chunk holds
push_list_merging(b, list_items) ==
    LET continues == /\ b.slide_chunks # <<>>
                     /\ b.slide_chunks[Len(b.slide_chunks)].operations # <<>>
                     /\ LET operations == b.slide_chunks[Len(b.slide_chunks)].operations
                        IN operations[Len(operations)] = Op("RenderLineBreak")
                     /\ b.slide_state.last_chunk_ended_in_list
        popped == IF continues
                  THEN [b EXCEPT !.slide_chunks = pop_last(@)]
                  ELSE b
        start_index == IF /\ b.slide_state.last_element # LastElementAny
                          /\ b.chunk_operations = <<>>
                       THEN b.slide_state.last_element[1] + 1
                       ELSE 0
    IN push_list_items(popped, collect(NewListIterator(list_items, start_index)))

\* PresentationBuilder::push_list
push_list(b, list_items) ==
    LET continues == /\ b.slide_chunks # <<>>
                     /\ b.slide_chunks[Len(b.slide_chunks)].operations # <<>>
                     /\ LET operations == b.slide_chunks[Len(b.slide_chunks)].operations
                        IN operations[Len(operations)] = Op("RenderLineBreak")
                     /\ b.slide_state.last_chunk_ended_in_list
                     /\ b.chunk_operations = <<>>
        popped == IF continues
                  THEN [b EXCEPT !.slide_chunks = pop_last(@)]
                  ELSE b
        start_index == IF /\ b.slide_state.last_element # LastElementAny
                          /\ b.chunk_operations = <<>>
                       THEN b.slide_state.last_element[1] + 1
                       ELSE 0
    IN push_list_items(popped, collect(NewListIterator(list_items, start_index)))

\* a result of the builder: the builder as the call leaves it and the
\* BuildError, "" for Ok(())
Ok(b) == [builder |-> b, error |-> ""]

Err(b, error) == [builder |-> b, error |-> error]

\* Err(BuildError::CommandParse { line, error })
ErrCommandParse(b, line) ==
    [builder |-> b, error |-> "CommandParse", line |-> line]

\* PresentationBuilder::validate_column_layout: the BuildError, "" for Ok(())
validate_column_layout(columns) ==
    IF columns = <<>> THEN "InvalidLayout"
    ELSE IF \E i \in 1..Len(columns) : columns[i] = 0 THEN "InvalidLayout"
    ELSE ""

\* CommentCommand (builder.rs:909-930)
Pause == [cmd |-> "Pause"]

EndSlide == [cmd |-> "EndSlide"]

InitColumnLayout(columns) == [cmd |-> "InitColumnLayout", columns |-> columns]

Column(column) == [cmd |-> "Column", column |-> column]

ResetLayout == [cmd |-> "ResetLayout"]

\* a comment of the document: whether its text has a line break, its text
\* trimmed, what comment.parse::<CommentCommand>() gives for it: <<>> for an
\* error, else the command, and source_position.start.line
Comment(multiline, trimmed, parsed, line) ==
    [kind |-> "Comment", multiline |-> multiline, trimmed |-> trimmed,
     parsed |-> parsed, line |-> line]

\* PresentationBuilder::should_ignore_comment
should_ignore_comment(comment) ==
    \/ comment.multiline
    \/ comment.trimmed = "{{{"
    \/ comment.trimmed = "}}}"

\* a faulty process_comment arm for `column`: the index is not compared with
\* the number of columns
enter_column_unchecked(b, column) ==
    LET layout == b.slide_state.layout
    IN IF layout.tag = "Default" THEN Err(b, "NoLayout")
       ELSE IF layout.tag = "InColumn" /\ layout.column = column
       THEN Err(b, "AlreadyInColumn")
       ELSE Ok([push_operations(b, <<[op |-> "EnterColumn", column |-> column]>>)
                   EXCEPT !.slide_state.layout =
                              InColumn(column, layout.columns_count)])

\* the CommentCommand::Column arm of process_comment (builder.rs:259-272)
enter_column(b, column) ==
    LET layout == b.slide_state.layout
    IN IF layout.tag = "Default" THEN Err(b, "NoLayout")
       ELSE IF layout.tag = "InColumn" /\ layout.column = column
       THEN Err(b, "AlreadyInColumn")
       ELSE IF column >= layout.columns_count
       THEN Err(b, "ColumnIndexTooLarge")
       ELSE Ok([push_operations(b, <<[op |-> "EnterColumn", column |-> column]>>)
                   EXCEPT !.slide_state.layout =
                              InColumn(column, layout.columns_count)])

\* a faulty CommentCommand::InitColumnLayout arm: no column has to be
\* entered afterwards
init_column_layout_free(b, columns) ==
    IF validate_column_layout(columns) # ""
    THEN Err(b, validate_column_layout(columns))
    ELSE Ok([push_operations(b, <<[op |-> "InitColumnLayout", columns |-> columns]>>)
                EXCEPT !.slide_state.layout = InLayout(Len(columns))])

\* the CommentCommand::InitColumnLayout arm of process_comment
\* (builder.rs:249-254)
init_column_layout(b, columns) ==
    IF validate_column_layout(columns) # ""
    THEN Err(b, validate_column_layout(columns))
    ELSE Ok([push_operations(b, <<[op |-> "InitColumnLayout", columns |-> columns]>>)
                EXCEPT !.slide_state.layout = InLayout(Len(columns)),
                       !.slide_state.needs_enter_column = TRUE])

\* the CommentCommand::ResetLayout arm of process_comment (builder.rs:255-258)
reset_layout(b) ==
    [push_operations(b, <<Op("ExitLayout"), Op("RenderLineBreak")>>)
        EXCEPT !.slide_state.layout = LayoutDefault]

\* PresentationBuilder::process_comment
process_comment(b, comment) ==
    IF should_ignore_comment(comment) THEN Ok(b)
    ELSE IF comment.parsed = <<>> THEN ErrCommandParse(b, comment.line + 1)
    ELSE LET command == comment.parsed[1]
             done == CASE command.cmd = "Pause" -> Ok(process_pause(b))
                       [] command.cmd = "EndSlide" -> Ok(terminate_slide(b))
                       [] command.cmd = "InitColumnLayout" ->
                              init_column_layout(b, command.columns)
                       [] command.cmd = "ResetLayout" -> Ok(reset_layout(b))
                       [] command.cmd = "Column" -> enter_column(b, command.column)
         IN IF done.error # "" THEN done
            ELSE Ok([done.builder EXCEPT
                        !.slide_state.ignore_element_line_break = TRUE])

\* PresentationBuilder::process_element
process_element(b, element) ==
    LET should_clear_last == element.kind \notin {"List", "Comment"}
        done == CASE element.kind = "FrontMatter" ->
                         Ok([b EXCEPT !.slide_state.ignore_element_line_break = TRUE])
                  [] element.kind = "SetexHeading" -> Ok(push_slide_title(b, element.text))
                  [] element.kind = "Heading" -> Ok(push_heading(b, element.text))
                  [] element.kind = "Paragraph" ->
                         Ok(push_paragraph(b, element.elements))
                  [] element.kind = "List" -> Ok(push_list(b, element.items))
                  [] element.kind = "Code" -> Ok(push_code(b, element.code))
                  [] element.kind = "Table" -> Ok(push_table(b, element.table))
                  [] element.kind = "ThematicBreak" -> Ok(push_separator(b))
                  [] element.kind = "Comment" -> process_comment(b, element)
                  [] element.kind = "BlockQuote" ->
                         Ok(push_block_quote(b, element.lines))
                  [] element.kind = "Image" -> push_image(b, element.found)
    IN IF done.error # "" THEN done
       ELSE IF should_clear_last
       THEN Ok([done.builder EXCEPT !.slide_state.last_element = LastElementAny])
       ELSE done

\* a faulty validate_last_operation: whatever the last operation is, it is
\* taken for valid
validate_last_operation_accepting(b) ==
    IF ~b.slide_state.needs_enter_column THEN Ok(b)
    ELSE IF b.chunk_operations = <<>> THEN Ok(b)
    ELSE LET last == b.chunk_operations[Len(b.chunk_operations)]
             checked == [b EXCEPT !.slide_state.needs_enter_column = FALSE]
         IN IF last.op = "InitColumnLayout" THEN Ok(b) ELSE Ok(checked)

\* PresentationBuilder::validate_last_operation
validate_last_operation(b) ==
    IF ~b.slide_state.needs_enter_column THEN Ok(b)
    ELSE IF b.chunk_operations = <<>> THEN Ok(b)
    ELSE LET last == b.chunk_operations[Len(b.chunk_operations)]
             checked == [b EXCEPT !.slide_state.needs_enter_column = FALSE]
         IN IF last.op = "InitColumnLayout" THEN Ok(b)
            ELSE IF last.op \in {"EnterColumn", "ExitLayout"} THEN Ok(checked)
            ELSE Err(checked, "NotInsideColumn")

\* a faulty body of the loop: the errors of process_element and of
\* validate_last_operation are dropped and the loop goes on
build_element_going_on(b, element) ==
    LET processed == process_element(
                         [b EXCEPT !.slide_state.ignore_element_line_break = FALSE],
                         element)
        validated == validate_last_operation(processed.builder)
    IN IF ~validated.builder.slide_state.ignore_element_line_break
       THEN Ok(push_line_break(validated.builder))
       ELSE Ok(validated.builder)

\* the body of the loop of build (builder.rs:91-96) for one element
build_element(b, element) ==
    LET processed == process_element(
                         [b EXCEPT !.slide_state.ignore_element_line_break = FALSE],
                         element)
        validated == validate_last_operation(processed.builder)
    IN IF processed.error # "" THEN processed
       ELSE IF validated.error # "" THEN validated
       ELSE IF ~validated.builder.slide_state.ignore_element_line_break
       THEN Ok(push_line_break(validated.builder))
       ELSE validated

\* PresentationBuilder::push_intro_slide; an Option of the metadata is a
\* sequence of at most one text
push_intro_slide(b, metadata) ==
    LET centered == push_operations(b, <<Op("JumpToVerticalCenter")>>)
        titled == push_line_break(push_text(centered, <<StyledText("title")>>))
        sub_titled == IF metadata.sub_title # <<>>
                      THEN push_line_break(push_text(titled, <<StyledText("sub_title")>>))
                      ELSE titled
        positioned == IF b.theme.author_positioning = "BelowTitle"
                      THEN push_line_breaks(sub_titled, 3)
                      ELSE push_operations(sub_titled,
                               <<[op |-> "JumpToBottomRow", index |-> 0]>>)
        authored == IF metadata.author # <<>>
                    THEN push_text(positioned, <<StyledText("author")>>)
                    ELSE sub_titled
    IN terminate_slide(authored)

\* the front matters of a document: `valid` tells whether serde_yaml reads
\* the contents and set_theme takes its theme
FrontMatters ==
    { [kind |-> "FrontMatter", valid |-> FALSE,
       title |-> <<>>, sub_title |-> <<>>, author |-> <<>>],
      [kind |-> "FrontMatter", valid |-> TRUE,
       title |-> <<>>, sub_title |-> <<>>, author |-> <<>>],
      [kind |-> "FrontMatter", valid |-> TRUE,
       title |-> <<>>, sub_title |-> <<>>, author |-> <<"author">>],
      [kind |-> "FrontMatter", valid |-> TRUE,
       title |-> <<"title">>, sub_title |-> <<"sub_title">>,
       author |-> <<"author">>] }

\* PresentationBuilder::process_front_matter
process_front_matter(b, metadata) ==
    IF ~metadata.valid THEN Err(b, "InvalidMetadata")
    ELSE LET authored == [b EXCEPT !.footer_context.author =
                             IF metadata.author = <<>> THEN ""
                             ELSE metadata.author[1]]
         IN IF metadata.title # <<>> \/ metadata.sub_title # <<>>
               \/ metadata.author # <<>>
            THEN Ok(push_intro_slide(push_slide_prelude(authored), metadata))
            ELSE Ok(authored)

\* the MarkdownElements of a document, the front matter aside
Elements ==
    { [kind |-> "SetexHeading", text |-> <<StyledText("title")>>],
      [kind |-> "Heading", text |-> <<StyledText("heading")>>],
      [kind |-> "Paragraph", elements |-> <<>>],
      [kind |-> "Paragraph",
       elements |-> <<[kind |-> "Text",
                       text |-> <<StyledText("paragraph")>>]>>],
      [kind |-> "List", items |-> <<>>],
      [kind |-> "List", items |-> <<ListItem(0, "Unordered")>>],
      [kind |-> "List", items |-> <<ListItem(0, "OrderedPeriod"),
                                    ListItem(1, "OrderedPeriod"),
                                    ListItem(0, "OrderedPeriod")>>],
      [kind |-> "List", items |-> <<ListItem(2, "OrderedParens"),
                                    ListItem(0, "OrderedParens")>>],
      [kind |-> "Code",
       code |-> [contents |-> <<"hi">>, line_numbers |-> FALSE,
                 highlight_groups |-> << 1..MaxLines >>, execute |-> FALSE]],
      [kind |-> "Code",
       code |-> [contents |-> <<"hi", "hi">>, line_numbers |-> TRUE,
                 highlight_groups |-> << {1}, {2} >>, execute |-> TRUE]],
      [kind |-> "Table",
       table |-> [header |-> <<"key", "value">>,
                  rows |-> << <<"potato", "bar">> >>]],
      [kind |-> "ThematicBreak"],
      [kind |-> "BlockQuote", lines |-> 1],
      [kind |-> "Image", found |-> TRUE],
      [kind |-> "Image", found |-> FALSE],
      Comment(FALSE, "{{{", <<>>, 2),
      Comment(TRUE, "a note", <<>>, 2),
      Comment(FALSE, "nonsense", <<>>, 0),
      Comment(FALSE, "nonsense", <<>>, 4),
      Comment(FALSE, "pause", <<Pause>>, 2),
      Comment(FALSE, "end_slide", <<EndSlide>>, 2),
      Comment(FALSE, "column_layout: [1, 1]", <<InitColumnLayout(<<1, 1>>)>>, 2),
      Comment(FALSE, "column_layout: []", <<InitColumnLayout(<<>>)>>, 2),
      Comment(FALSE, "column_layout: [1, 0]", <<InitColumnLayout(<<1, 0>>)>>, 2),
      Comment(FALSE, "column: 0", <<Column(0)>>, 2),
      Comment(FALSE, "column: 1", <<Column(1)>>, 2),
      Comment(FALSE, "column: 2", <<Column(2)>>, 2),
      Comment(FALSE, "reset_layout", <<ResetLayout>>, 2) }

\* the elements of the document handed to the loop of build so far, its
\* front matter aside
Handled ==
    IF elements # <<>> /\ elements[1].kind = "FrontMatter"
    THEN Len(elements) - 1
    ELSE Len(elements)

\* the BuildError a `?` of build returns: the error, and the line of a
\* CommandParse
BuildError(failed) ==
    IF failed.error = "CommandParse"
    THEN [error |-> failed.error, line |-> failed.line]
    ELSE [error |-> failed.error]

\* the end of a turn of the loop of build (builder.rs:90-97): `done` is what
\* the turn's process_element and validate_last_operation left, `handled`
\* the elements handed to the loop so far; an error is returned by the `?`
LoopTurn(done, handled) ==
    /\ builder' = done.builder
    /\ elements' = handled
    /\ built' = IF done.error # "" THEN done.error ELSE "building"
    /\ returned' = IF done.error # "" THEN <<BuildError(done)>> ELSE <<>>

\* a builder made by PresentationBuilder::new, of any configuration
InitBuild ==
    /\ SessionIdle
    /\ RunIdle
    /\ ListIdle
    /\ MutatorIdle
    /\ PreparersIdle
    /\ builder \in { NewBuilder(c) : c \in Configurations }
    /\ elements = <<>>
    /\ built = "new"
    /\ returned = <<>>

\* build up to its loop (builder.rs:82-89), and the turn of the loop for the
\* front matter when the document has one: `front_matter` is the Option of
\* the first element being a front matter, `code_theme` whether
\* CodeHighlighter::new knows the theme's code theme
StartBuild(front_matter, code_theme) ==
    /\ built = "new"
    /\ LET fronted == IF front_matter = <<>> THEN Ok(builder)
                      ELSE process_front_matter(builder, front_matter[1])
           preluded == IF fronted.builder.chunk_operations = <<>>
                       THEN push_slide_prelude(fronted.builder)
                       ELSE fronted.builder
           looped == IF front_matter = <<>> THEN Ok(preluded)
                     ELSE build_element(preluded, front_matter[1])
       IN IF fronted.error # ""
          THEN /\ built' = fronted.error
               /\ returned' = <<BuildError(fronted)>>
               /\ UNCHANGED <<builder, elements>>
          ELSE IF ~code_theme
          THEN /\ built' = "InvalidCodeTheme"
               /\ returned' = <<[error |-> "InvalidCodeTheme"]>>
               /\ UNCHANGED <<builder, elements>>
          ELSE LoopTurn(looped, front_matter)
    /\ UNCHANGED offBuild

\* one turn of the loop of build (builder.rs:90-97)
ProcessElement(element) ==
    /\ built = "building"
    /\ Handled < MaxElements
    /\ LoopTurn(build_element(builder, element), Append(elements, element))
    /\ UNCHANGED offBuild

\* the end of build (builder.rs:98-104): the document has no more elements
FinishBuild ==
    /\ built = "building"
    /\ LET terminated == IF builder.chunk_operations # <<>>
                            \/ builder.slide_chunks # <<>>
                         THEN terminate_slide(builder)
                         ELSE builder
       IN builder' = [terminated EXCEPT
                         !.footer_context.total_slides = Len(terminated.slides)]
    /\ built' = "Ok"
    /\ returned' = <<[presentation |-> builder'.slides]>>
    /\ UNCHANGED elements
    /\ UNCHANGED offBuild

NextBuild ==
    \/ \E front_matter \in {<<>>} \cup { <<f>> : f \in FrontMatters },
          code_theme \in BOOLEAN : StartBuild(front_matter, code_theme)
    \/ \E element \in Elements : ProcessElement(element)
    \/ FinishBuild

SpecBuild == InitBuild /\ [][NextBuild]_vars

-----------------------------------------------------------------------------
(* SpecTable: push_table over one table (builder.rs:556-605)               *)

\* the most columns and the most rows of a table, its header aside
MaxTableColumns == 3

MaxTableRows == 1

\* the texts of the cells
TableCells == {"", "key"}

\* the tables: a header and rows of as many cells as the header
Tables ==
    UNION { { [header |-> h, rows |-> r] :
                h \in [1..n -> TableCells],
                r \in UNION { [1..m -> [1..n -> TableCells]] : m \in 0..MaxTableRows } } :
            n \in 1..MaxTableColumns }

\* the text of a RenderText: its chunks joined, as extract_text_lines of the
\* tests joins them (builder.rs:1200-1203)
RECURSIVE join(_)
join(text) == IF text = <<>> THEN "" ELSE Head(text).text \o join(Tail(text))

\* the texts of the RenderText operations, in order
RECURSIVE text_lines(_)
text_lines(operations) ==
    IF operations = <<>> THEN <<>>
    ELSE (IF Head(operations).op = "RenderText"
          THEN <<join(Head(operations).text)>>
          ELSE <<>>)
         \o text_lines(Tail(operations))

\* the lines push_table pushes for a table
table_text(table) ==
    text_lines(push_table(NewBuilder(CHOOSE c \in Configurations : TRUE),
                          table).chunk_operations)

InitTable ==
    /\ SessionIdle
    /\ RunIdle
    /\ ListIdle
    /\ MutatorIdle
    /\ BuildIdle
    /\ code_input = [contents |-> <<>>, line_numbers |-> FALSE,
                     horizontal |-> 0, vertical |-> 0]
    /\ code_lines = <<>>
    /\ table_input \in Tables
    /\ table_lines = <<>>

\* process_element hands the table to push_table
PushTable ==
    /\ table_lines = <<>>
    /\ table_lines' = table_text(table_input)
    /\ UNCHANGED table_input
    /\ UNCHANGED offTable

NextTable == PushTable

SpecTable == InitTable /\ [][NextTable]_vars

-----------------------------------------------------------------------------
(* SpecCode: CodePreparer::prepare over one code block (builder.rs:608-651) *)

\* the most lines of a prepared code block, and the widest padding
MaxCodeLines == 11

MaxPadding == 2

\* a code block of any number of lines, with or without line numbers, under
\* any code padding of the theme
InitCode ==
    /\ SessionIdle
    /\ RunIdle
    /\ ListIdle
    /\ MutatorIdle
    /\ BuildIdle
    /\ table_input = [header |-> <<>>, rows |-> <<>>]
    /\ table_lines = <<>>
    /\ code_input \in
           { [contents |-> [n \in 1..lines |-> "hi"], line_numbers |-> numbered,
              horizontal |-> horizontal, vertical |-> vertical] :
                lines \in 0..MaxCodeLines, numbered \in BOOLEAN,
                horizontal \in 0..MaxPadding, vertical \in 0..1 }
    /\ code_lines = <<>>

\* highlight_lines has the block prepared (builder.rs:487); code_lines is
\* the Option of what prepare returned
Prepare ==
    /\ code_lines = <<>>
    /\ code_lines' =
           <<prepare([horizontal_padding |-> code_input.horizontal,
                      vertical_padding |-> code_input.vertical],
                     code_input)>>
    /\ UNCHANGED code_input
    /\ UNCHANGED offCode

NextCode == Prepare

SpecCode == InitCode /\ [][NextCode]_vars

-----------------------------------------------------------------------------
(* Properties of the session controller, checked under Spec.               *)

\* the cursor of the presentation a session state holds
Cursor(st) ==
    <<current_slide_index(presentation(st)), current_chunk(presentation(st))>>

\* the RunCodeOperations of a presentation
Widgets(p) ==
    UNION { { p.slides[s][c].widget[1] :
                  c \in { c \in 1..Len(p.slides[s]) : p.slides[s][c].widget # <<>> } } :
            s \in 1..slide_count(p) }

\* a step that applies a Reload or HardReload command
ReloadStep == pc = "try_next_command" /\ effect' = "Reload"

\* C1: a successful reload leaves the cursor of the adopted presentation
\* where the differ says: on the previous cursor when it finds no divergence
\* between the previous presentation (the stale one, in Failure) and the new
\* one, on the first divergence (s, c) when it finds one.
C1_ReloadCursorFollowsDiffer ==
    [][(ReloadStep /\ loaded' = "ok") =>
          LET modification == find_first_modification(presentation(state),
                                                      presentation(state'))
          IN /\ state'.tag = "Presenting"
             /\ IF modification = <<>>
                THEN Cursor(state') = Cursor(state)
                ELSE Cursor(state') = <<modification[1].slide_index,
                                        modification[1].chunk_index>>]_vars

\* a reload from Failure succeeded without divergence and kept a cursor that
\* is on no first chunk of a first slide
C1_Witness ==
    /\ effect = "Reload"
    /\ loaded = "ok"
    /\ rendered = "error"
    /\ state.tag = "Presenting"
    /\ Cursor(state) = <<1, 1>>
    /\ presentation(state).slides[1] = presentation(state).slides[2]

\* C2: a failing reload leaves the session in Failure with the text of the
\* error and the presentation it held, cursor and all, whether it was in
\* Presenting or already in Failure; a reload that succeeds from Failure
\* leaves it in Presenting.
C2_FailedReloadKeepsPresentation ==
    [][(ReloadStep /\ loaded' \in LoadErrors =>
            /\ state' = Failure(loaded', presentation(state))
            /\ pc' = "render")
       /\ (ReloadStep /\ loaded' = "ok" /\ state.tag = "Failure" =>
            state'.tag = "Presenting")]_vars

\* a second reload has failed, with another error than the one on screen,
\* and the cursor of the presentation kept is not the initial one
C2_Witness ==
    /\ effect = "Reload"
    /\ rendered = "error"
    /\ state.tag = "Failure"
    /\ state.error = "invalid layout"
    /\ loaded = "invalid layout"
    /\ Cursor(state) = <<1, 1>>

\* C3: in presentation mode a Reload or HardReload command changes neither
\* the session state (the presentation and its cursor included) nor the set
\* of slides with pending widgets, and loads nothing.
C3_NoReloadInPresentationMode ==
    [][(ReloadStep /\ mode = "Presentation") =>
          /\ state' = state
          /\ pending' = pending
          /\ loaded' = "none"]_vars

\* a reload command was applied in presentation mode while a widget was
\* pending
C3_Witness ==
    /\ mode = "Presentation"
    /\ effect = "Reload"
    /\ pending # {}
    /\ Cursor(state) # <<0, 0>>

\* the index a JumpSlide command carrying `number` is to reach
JumpTarget(p, number) ==
    Min(IF number = 0 THEN 0 ELSE number - 1, slide_count(p) - 1)

\* C4: the cursor is always a slide of the presentation and a chunk of that
\* slide, and a JumpSlide command carrying n reaches the slide of index n - 1,
\* or 0 for n = 0, or the last slide when there are fewer.
C4_CursorValid ==
    /\ [](state.tag # "Empty" =>
            /\ current_slide_index(presentation(state))
                   \in 0..(slide_count(presentation(state)) - 1)
            /\ current_chunk(presentation(state))
                   \in 0..(chunk_count(presentation(state),
                                       current_slide_index(presentation(state))) - 1))
    /\ [][\A n \in 0..(MaxSlides + 1) :
              (state.tag = "Presenting" /\ Apply(JumpSlide(n), NoLoad)) =>
                  current_slide_index(presentation(state'))
                      = JumpTarget(presentation(state), n)]_vars

\* a navigation command has brought the cursor from elsewhere to the last
\* slide of a presentation of MaxSlides slides
C4_Witness ==
    /\ state.tag = "Presenting"
    /\ effect = "Redraw"
    /\ slide_count(presentation(state)) = MaxSlides
    /\ Cursor(state) = <<MaxSlides - 1, 0>>

\* C5: outside Presenting, a command other than Reload, HardReload and Exit
\* changes neither the state nor the pending widgets and has no side effect:
\* the loop goes on polling without a redraw.
C5_CommandsNeedPresentation ==
    [][\A cmd \in Commands :
          (/\ pc = "try_next_command"
           /\ state.tag # "Presenting"
           /\ cmd.kind \notin {"Reload", "HardReload", "Exit"}
           /\ Apply(cmd, NoLoad)) =>
              /\ state' = state
              /\ pending' = pending
              /\ effect' = "None"
              /\ pc' = "update_widgets_inner"
              /\ rendered' = rendered
              /\ result' = "running"]_vars

\* a command was applied in Failure, with no side effect, on a presentation
\* whose cursor is not the initial one
C5_Witness ==
    /\ state.tag = "Failure"
    /\ effect = "None"
    /\ pc = "update_widgets_inner"
    /\ Cursor(state) = <<1, 1>>

\* C6: an Exit command makes present() return Ok from any state and mode,
\* and nothing happens after present() has returned.
C6_ExitIsTerminal ==
    [][/\ (pc = "try_next_command" /\ Apply(Cmd("Exit"), NoLoad)) =>
              /\ result' = "ok"
              /\ pc' = "done"
              /\ state' = state
       /\ pc # "done"]_vars

\* the session has ended on an Exit command given in Failure
C6_Witness ==
    /\ pc = "done"
    /\ result = "ok"
    /\ effect = "Exit"
    /\ state.tag = "Failure"

\* C7: present() returns a load error only from the initial load, before
\* anything is rendered, and a reload whose load fails leaves the loop
\* running.
C7_OnlyInitialLoadIsFatal ==
    /\ [](result = "load_error" => state = Empty /\ rendered = "nothing")
    /\ [][/\ (pc = "load" /\ loaded' \in LoadErrors) => result' = "load_error"
          /\ (ReloadStep /\ loaded' \in LoadErrors) =>
                 result' = "running" /\ pc' = "render"]_vars

\* a reload has failed and the loop is fetching commands again
C7_Witness ==
    /\ state.tag = "Failure"
    /\ rendered = "error"
    /\ pc = "try_next_command"
    /\ result = "running"

\* C10: a widget whose process could not be spawned goes from NotStarted to
\* Rendered with the error text as its only line and no handle, stays so
\* under every later poll and start, and the command that started it leaves
\* the session running in Presenting.
C10_SpawnFailureIsRendered ==
    [][/\ (loaded' = "none" /\ state.tag # "Empty") =>
            \A s \in 1..slide_count(presentation(state)) :
              \A c \in 1..Len(presentation(state).slides[s]) :
                presentation(state).slides[s][c].widget # <<>> =>
                    LET w == presentation(state).slides[s][c].widget[1]
                        w2 == presentation(state').slides[s][c].widget[1]
                    IN /\ (w.state = "NotStarted" /\ w2 # w /\ w2.handle = <<>>) =>
                              w2 = [handle |-> <<>>,
                                    output_lines |-> <<SpawnErrorText>>,
                                    state |-> "Rendered"]
                       /\ w.output_lines = <<SpawnErrorText>> => w2 = w
       /\ (pc = "try_next_command" /\ Apply(Cmd("RenderWidgets"), NoLoad)) =>
              /\ result' = "running"
              /\ state'.tag = state.tag
              /\ loaded' = "none"]_vars

\* a widget's spawn failed, it was polled and found settled, and the session
\* is fetching commands
C10_Witness ==
    /\ state.tag = "Presenting"
    /\ pc = "try_next_command"
    /\ pending = {}
    /\ result = "running"
    /\ \E w \in Widgets(presentation(state)) :
           w = [handle |-> <<>>, output_lines |-> <<SpawnErrorText>>,
                state |-> "Rendered"]

-----------------------------------------------------------------------------
(* Properties of the loop of present(), checked under SpecLive.            *)

\* a widget of the current slide is Rendering and its process runs
WidgetRendering ==
    /\ state.tag = "Presenting"
    /\ \E c \in widget_chunks(presentation(state)) :
          LET w == presentation(state).slides[
                       current_slide_index(presentation(state)) + 1][c].widget[1]
          IN /\ w.state = "Rendering"
             /\ w.handle # <<>>
             /\ w.handle[1].status = "Running"

NavigationKinds ==
    {"JumpNextSlide", "JumpPreviousSlide", "JumpFirstSlide", "JumpLastSlide",
     "JumpSlide"}

\* C26: a command the command source holds while a widget of the current
\* slide is Rendering is in the end taken and applied, unless present()
\* returns before, whether the widget's process ever ends or not; a
\* navigation command taken then goes to the redraw exactly when it moves
\* the cursor, JumpNextSlide moves it when there is a next slide and
\* JumpLastSlide moves it to the last one, and the redraw is done.
C26_CommandsAppliedWhileRendering ==
    /\ (WidgetRendering /\ source # <<>>) ~> (source = <<>> \/ pc = "done")
    /\ [][WidgetRendering /\ TakeCommand
                          /\ Head(source).kind \in NavigationKinds =>
             /\ state'.tag = "Presenting"
             /\ (Cursor(state') # Cursor(state)) <=> effect' = "Redraw"
             /\ effect' = "Redraw" <=> pc' = "render"
             /\ effect' # "Redraw" => pc' = "update_widgets_inner"
             /\ Head(source).kind = "JumpLastSlide"
                  /\ Cursor(state)[1] + 1 < slide_count(presentation(state)) =>
                    Cursor(state') = <<slide_count(presentation(state)) - 1, 0>>
             /\ Head(source).kind = "JumpNextSlide"
                  /\ Cursor(state)[1] + 1 < slide_count(presentation(state)) =>
                    Cursor(state') # Cursor(state)]_vars
    /\ (pc = "render" /\ effect = "Redraw") ~>
           (pc \in {"update_widgets_outer", "done"})

\* a navigation command has moved the cursor off a slide whose widget is
\* still Rendering, and the redraw has been done
C26_Witness ==
    /\ pc = "update_widgets_outer"
    /\ effect = "Idle"
    /\ rendered = "slide"
    /\ source = <<>>
    /\ state.tag = "Presenting"
    /\ Cursor(state)[1] = 1
    /\ pending = {0}
    /\ \E c \in 1..Len(presentation(state).slides[1]) :
          LET w == presentation(state).slides[1][c].widget
          IN /\ w # <<>>
             /\ w[1].state = "Rendering"
             /\ w[1].handle # <<>>
             /\ w[1].handle[1].status = "Running"

-----------------------------------------------------------------------------
(* Properties of the on-demand execution operation, checked under SpecRun. *)

\* how far a RenderOnDemandState is along NotStarted, Rendering, Rendered
Rank(s) == CASE s = "NotStarted" -> 0 [] s = "Rendering" -> 1 [] s = "Rendered" -> 2

\* C8: whatever is called, the state of the operation never goes back, it
\* goes from NotStarted straight to Rendered only when the spawn failed, and
\* once it is Rendered nothing about the operation changes.
C8_StateMovesForward ==
    [][/\ Rank(op'.state) >= Rank(op.state)
       /\ (op.state = "NotStarted" /\ op'.state = "Rendered") =>
              op'.output_lines = <<SpawnErrorText>> /\ op'.handle = <<>>
       /\ op.state = "Rendered" => op' = op]_vars

\* the process ran, printed and ended, and a poll found the operation
\* Rendered a second time
C8_Witness ==
    /\ op.state = "Rendered"
    /\ op.output_lines # <<>>
    /\ spawns = 1
    /\ call = "poll_state"
    /\ ret = "Rendered"
    /\ shown # <<>>

\* C9: start_render on an operation that is not NotStarted returns false and
\* changes nothing, and the code block is executed at most once.
C9_StartRenderOnce ==
    /\ [](spawns <= 1)
    /\ [][(StartRender /\ op.state # "NotStarted") =>
              /\ ret' = "false"
              /\ op' = op
              /\ spawns' = spawns]_vars

\* start_render was called on an operation whose process is running
C9_Witness ==
    /\ call = "start_render"
    /\ ret = "false"
    /\ op.state = "Rendering"
    /\ op.handle # <<>>
    /\ spawns = 1

\* C11: the poll that finds the process finished drops the handle, sets the
\* state to Rendered and takes the process's output, followed by one error
\* marker when the process failed; a poll of a Rendered operation returns
\* Rendered and a poll of a NotStarted one NotStarted, and neither changes
\* anything, so the marker is never added twice.
C11_PollIdempotent ==
    [][PollState =>
          /\ (op.handle # <<>> /\ is_finished(op.handle[1].status)) =>
                 /\ op'.handle = <<>>
                 /\ op'.state = "Rendered"
                 /\ ret' = "Rendered"
                 /\ op'.output_lines =
                        IF op.handle[1].status = "Failure"
                        THEN op.handle[1].output \o <<"[finished with error]">>
                        ELSE op.handle[1].output
          /\ op.state \in {"Rendered", "NotStarted"} =>
                 /\ op' = op
                 /\ ret' = op.state]_vars

\* the process printed and failed, a poll found it so, the operation was
\* drawn as done and then polled again: the marker is there once
C11_Witness ==
    /\ call = "poll_state"
    /\ ret = "Rendered"
    /\ op.handle = <<>>
    /\ Len(op.output_lines) = 2
    /\ op.output_lines[2] = "[finished with error]"
    /\ op.output_lines[1] # "[finished with error]"
    /\ shown # <<>>
    /\ shown[2].heading = " [done] "

-----------------------------------------------------------------------------
(* Properties of the list numbering, checked under SpecList.               *)

\* the items emitted before the j-th that lie at its depth
EarlierAtDepth(j) ==
    { i \in 1..(j - 1) : emitted[i].item.depth = emitted[j].item.depth }

\* the j-th item emitted returns to a shallower depth than the one before it
ReturnsShallower(j) ==
    /\ j > 1
    /\ emitted[j].item.depth < emitted[j - 1].item.depth

\* C18: an item that returns to a shallower depth d gets the index one
\* greater than that of the most recent earlier item at depth d, for every
\* sequence of depths.
C18_ResumesWhereLevelLeftOff ==
    \A j \in 1..Len(emitted) :
        (ReturnsShallower(j) /\ EarlierAtDepth(j) # {}) =>
            LET i == CHOOSE i \in EarlierAtDepth(j) :
                         \A k \in EarlierAtDepth(j) : k <= i
            IN emitted[j].index = emitted[i].index + 1

\* the indexes ListIterator gives to unordered items of these depths
Indexes(depths, start) ==
    LET items == [i \in 1..Len(depths) |-> ListItem(depths[i], "Unordered")]
        indexed == collect(NewListIterator(items, start))
    IN [i \in 1..Len(indexed) |-> indexed[i].index]

\* C19: the iterator yields the items of the list once each and in order
\* and always has a next item while some remain; the first depth-0 item gets
\* the start index, an item at the depth of the one before it the next
\* index, an item deeper than the one before it index 0; depths
\* [0,0,1,1,1,2,0] from 0 get [0,1,0,1,2,0,2] and two depth-0 items from 3
\* get [3,4].
C19_NumberingEngine ==
    /\ [i \in 1..Len(emitted) |-> emitted[i].item] \o iter.remaining = list.items
    /\ iter.remaining # <<>> => ENABLED IterNext
    /\ \A j \in 1..Len(emitted) :
          /\ (emitted[j].item.depth = 0 /\ EarlierAtDepth(j) = {}) =>
                 emitted[j].index = list.start
          /\ (j > 1 /\ emitted[j].item.depth = emitted[j - 1].item.depth) =>
                 emitted[j].index = emitted[j - 1].index + 1
          /\ (j > 1 /\ emitted[j].item.depth > emitted[j - 1].item.depth) =>
                 emitted[j].index = 0
    /\ Indexes(<<0, 0, 1, 1, 1, 2, 0>>, 0) = <<0, 1, 0, 1, 2, 0, 2>>
    /\ Indexes(<<0, 0>>, 3) = <<3, 4>>

-----------------------------------------------------------------------------
(* Properties of the reveal mutator, checked under SpecMutator.            *)

\* C20: over n >= 2 groups the cursor stays within 0..n-1 whatever is called;
\* mutate_next moves it one forward and returns true, except on the last
\* group, where it returns false and leaves it; mutate_previous moves it one
\* back and returns true, except on group 0, where it returns false and
\* leaves it; mutations reports (current, n).
C20_MutatorCursor ==
    /\ [](Len(context.groups) >= 2 /\ context.current \in 0..(Len(context.groups) - 1))
    /\ [][/\ MutateNext =>
               IF context.current = Len(context.groups) - 1
               THEN context'.current = context.current /\ mutation'.ret = FALSE
               ELSE context'.current = context.current + 1 /\ mutation'.ret = TRUE
          /\ MutatePrevious =>
               IF context.current = 0
               THEN context'.current = 0 /\ mutation'.ret = FALSE
               ELSE context'.current = context.current - 1 /\ mutation'.ret = TRUE
          /\ Mutations =>
               mutation'.ret = <<context.current, Len(context.groups)>>
          /\ context'.groups = context.groups]_vars

\* mutate_previous was refused on the first of MaxGroups groups
C20_Witness ==
    /\ Len(context.groups) = MaxGroups
    /\ context.current = 0
    /\ mutation = [call |-> "mutate_previous", ret |-> FALSE]
    /\ line_text # <<>>

-----------------------------------------------------------------------------
(* Properties of the presentation builder, checked under SpecBuild.        *)

\* the BuildErrors a build may end with
BuildErrors ==
    {"InvalidMetadata", "InvalidCodeTheme", "LoadImage", "CommandParse",
     "InvalidLayout", "NoLayout", "AlreadyInColumn", "ColumnIndexTooLarge",
     "NotInsideColumn"}

\* the comment `column: i`
ColumnComment(i) ==
    CHOOSE e \in Elements : e.kind = "Comment" /\ e.parsed = <<Column(i)>>

\* the comments `column: i`
ColumnComments ==
    { e \in Elements : /\ e.kind = "Comment"
                       /\ e.parsed # <<>>
                       /\ e.parsed[1].cmd = "Column" }

\* the comments `column_layout: [...]`
LayoutComments ==
    { e \in Elements : /\ e.kind = "Comment"
                       /\ e.parsed # <<>>
                       /\ e.parsed[1].cmd = "InitColumnLayout" }

\* C12: `column: i` fails with NoLayout when the layout state is Default,
\* with AlreadyInColumn when i is the column entered, with
\* ColumnIndexTooLarge when i is not below the number of columns, and else
\* sets the layout state to InColumn{i, columns_count} and pushes one
\* EnterColumn; a build that failed goes no further.
C12_ColumnCommand ==
    [][/\ \A e \in ColumnComments :
            ProcessElement(e) =>
               LET layout == builder.slide_state.layout
                   i == e.parsed[1].column
               IN IF layout.tag = "Default" THEN built' = "NoLayout"
                  ELSE IF layout.tag = "InColumn" /\ layout.column = i
                  THEN built' = "AlreadyInColumn"
                  ELSE IF i >= layout.columns_count
                  THEN built' = "ColumnIndexTooLarge"
                  ELSE /\ built' = "building"
                       /\ builder'.slide_state.layout =
                              InColumn(i, layout.columns_count)
                       /\ builder'.chunk_operations =
                              Append(builder.chunk_operations,
                                     [op |-> "EnterColumn", column |-> i])
                       /\ builder'.slide_chunks = builder.slide_chunks
                       /\ builder'.slides = builder.slides
       /\ built \notin BuildErrors]_vars

\* a second column is entered after the first
C12_Witness ==
    /\ built = "building"
    /\ Len(elements) = 3
    /\ elements[3] = ColumnComment(1)
    /\ builder.slide_state.layout = InColumn(1, 2)
    /\ Len(builder.chunk_operations) >= 2
    /\ builder.chunk_operations[Len(builder.chunk_operations) - 1] =
           [op |-> "EnterColumn", column |-> 0]

\* the elements that push a visible operation whatever the builder's state:
\* the content C13 and C14 speak of
ContentElements ==
    { e \in Elements :
        \/ e.kind \in {"SetexHeading", "Heading", "Code", "Table",
                       "ThematicBreak", "BlockQuote"}
        \/ e.kind = "Paragraph" /\ e.elements # <<>>
        \/ e.kind = "List" /\ e.items # <<>>
        \/ e.kind = "Image" /\ e.found }

\* C13: `column_layout` fails the build exactly when its list of widths is
\* empty or holds a zero; otherwise, whatever the layout state, the layout
\* state becomes InLayout with as many columns as the list has widths and a
\* column has to be entered: content right after the command is rejected.
C13_ColumnLayout ==
    [][/\ \A e \in LayoutComments :
            ProcessElement(e) =>
               LET columns == e.parsed[1].columns
                   invalid == \/ columns = <<>>
                              \/ \E n \in 1..Len(columns) : columns[n] = 0
               IN /\ (built' \in BuildErrors) <=> invalid
                  /\ invalid => built' = "InvalidLayout"
                  /\ ~invalid =>
                        /\ built' = "building"
                        /\ builder'.slide_state.layout = InLayout(Len(columns))
                        /\ builder'.slide_state.needs_enter_column
       /\ \A e \in ContentElements :
            /\ elements # <<>>
            /\ elements[Len(elements)] \in LayoutComments
            /\ ProcessElement(e)
            => built' = "NotInsideColumn"]_vars

\* a layout is opened while a column of an earlier layout is entered
C13_Witness ==
    /\ built = "building"
    /\ Len(elements) = 3
    /\ elements[1] \in LayoutComments
    /\ elements[2] = ColumnComment(0)
    /\ elements[3] \in LayoutComments
    /\ builder.slide_state.layout = InLayout(2)
    /\ builder.slide_state.needs_enter_column

\* the comment `reset_layout`
ResetLayoutComment ==
    CHOOSE e \in Elements : e.kind = "Comment" /\ e.parsed = <<ResetLayout>>

\* a layout has just been opened: the last element the loop took is an
\* accepted `column_layout`
LayoutJustOpened ==
    /\ built = "building"
    /\ elements # <<>>
    /\ elements[Len(elements)] \in LayoutComments

\* C14: right after a `column_layout`, with no column entered, the element
\* that follows is accepted when it is a `column` of the layout and when it
\* is `reset_layout`, and rejected with NotInsideColumn when it is content;
\* an accepted element ends the check for the slide.
C14_NextAfterLayout ==
    [][LayoutJustOpened =>
          /\ \A e \in ColumnComments :
                /\ e.parsed[1].column < builder.slide_state.layout.columns_count
                /\ ProcessElement(e)
                => /\ built' = "building"
                   /\ ~builder'.slide_state.needs_enter_column
          /\ ProcessElement(ResetLayoutComment) =>
                /\ built' = "building"
                /\ ~builder'.slide_state.needs_enter_column
          /\ \A e \in ContentElements :
                ProcessElement(e) => built' = "NotInsideColumn"]_vars

\* the operations of the chunks of a slide, in order
RECURSIVE chunk_operations(_)
chunk_operations(slide_chunks) ==
    IF slide_chunks = <<>> THEN <<>>
    ELSE Head(slide_chunks).operations \o chunk_operations(Tail(slide_chunks))

\* Slide::iter_operations: the operations of the chunks, then the footer
iter_operations(slide) == chunk_operations(slide.chunks) \o slide.footer

\* how many of the operations are of the variant `name`
OperationCount(operations, name) ==
    Cardinality({ n \in 1..Len(operations) : operations[n].op = name })

\* the document's front matter gave an introductory slide
HasIntroSlide ==
    /\ elements # <<>>
    /\ elements[1].kind = "FrontMatter"
    /\ \/ elements[1].title # <<>>
       \/ elements[1].sub_title # <<>>
       \/ elements[1].author # <<>>

\* the element is the comment `end_slide`
IsEndSlide(e) == e.kind = "Comment" /\ e.parsed = <<EndSlide>>

\* the slide, counted from 1, the k-th element of the document goes to: one
\* slide for the introduction, one more after every `end_slide`
SlideOf(k) ==
    (IF HasIntroSlide THEN 1 ELSE 0)
    + Cardinality({ j \in 1..(k - 1) : IsEndSlide(elements[j]) }) + 1

\* how many elements of the kind went to the slide
ElementCount(kind, slide_index) ==
    Cardinality({ k \in 1..Len(elements) :
                    elements[k].kind = kind /\ SlideOf(k) = slide_index })

\* C15 as stated: every slide of a built presentation has exactly one
\* ClearScreen and exactly one SetColors, whatever elements went to it.
C15_PreludeOnce ==
    built = "Ok" =>
        \A n \in 1..Len(builder.slides) :
            /\ OperationCount(iter_operations(builder.slides[n]), "ClearScreen") = 1
            /\ OperationCount(iter_operations(builder.slides[n]), "SetColors") = 1

\* C15, amended: every slide of a built presentation has exactly one
\* ClearScreen; its SetColors are the one of the prelude, one for every image
\* and two for every block quote that went to the slide: exactly one when
\* no image and no block quote did.
C15_PreludeColors ==
    built = "Ok" =>
        \A n \in 1..Len(builder.slides) :
            /\ OperationCount(iter_operations(builder.slides[n]), "ClearScreen") = 1
            /\ OperationCount(iter_operations(builder.slides[n]), "SetColors") =
                   1 + ElementCount("Image", n) + 2 * ElementCount("BlockQuote", n)

\* a presentation is built with a slide an image and a block quote went to,
\* after a slide neither went to
C15_Witness ==
    /\ built = "Ok"
    /\ Len(builder.slides) = 2
    /\ ElementCount("Image", 2) = 1
    /\ ElementCount("BlockQuote", 2) = 1
    /\ OperationCount(iter_operations(builder.slides[1]), "SetColors") = 1
    /\ OperationCount(iter_operations(builder.slides[2]), "SetColors") = 4

\* is_visible of the tests (builder.rs:1174-1193)
is_visible(operation) ==
    operation.op \in {"RenderText", "RenderLineBreak", "RenderImage",
                      "RenderPreformattedLine", "RenderDynamic", "RenderOnDemand"}

\* the visible ones of the operations, in order
RECURSIVE visible(_)
visible(operations) ==
    IF operations = <<>> THEN <<>>
    ELSE (IF is_visible(Head(operations)) THEN <<Head(operations)>> ELSE <<>>)
         \o visible(Tail(operations))

\* C16: in a built presentation, every slide but the introductory one has a
\* line break as its first visible operation and no line break as its
\* second, whatever elements went to it.
C16_OneLeadingLineBreak ==
    built = "Ok" =>
        \A n \in 1..Len(builder.slides) :
            (HasIntroSlide => n > 1) =>
                LET shown_operations == visible(iter_operations(builder.slides[n]))
                IN /\ shown_operations # <<>>
                   /\ shown_operations[1].op = "RenderLineBreak"
                   /\ Len(shown_operations) > 1 =>
                          shown_operations[2].op # "RenderLineBreak"

\* the element is the comment `pause`
IsPause(e) == e.kind = "Comment" /\ e.parsed = <<Pause>>

\* how many of the first n items are of depth 0
TopItems(items, n) ==
    Cardinality({ m \in 1..n : items[m].depth = 0 })

\* what C17 says of the first k elements of the document: the index of the
\* last item of depth 0 of the lists that end them on their slide, comments
\* ignored; <<>> when the last element that is no comment is no list
RECURSIVE ListEnd(_)
ListEnd(k) ==
    IF k = 0 THEN <<>>
    ELSE IF IsEndSlide(elements[k]) THEN <<>>
    ELSE IF elements[k].kind = "Comment" THEN ListEnd(k - 1)
    ELSE IF elements[k].kind # "List" THEN <<>>
    ELSE LET before == ListEnd(k - 1)
             start == IF k > 1 /\ IsPause(elements[k - 1]) /\ before # <<>>
                      THEN before[1] + 1
                      ELSE 0
             items == elements[k].items
         IN IF TopItems(items, Len(items)) > 0
            THEN <<start + TopItems(items, Len(items)) - 1>>
            ELSE before

\* the list about to be taken continues one: it opens a chunk after a pause
\* and the element before the pause, comments ignored, was a list
ContinuesList ==
    /\ elements # <<>>
    /\ IsPause(elements[Len(elements)])
    /\ ListEnd(Len(elements)) # <<>>

\* C17: a list that opens a chunk after a pause, when the element before the
\* pause, comments ignored, was a list, has its items of depth 0 numbered
\* from last_index + 1, and the line break that ends the sealed chunk is
\* removed; the items of depth 0 of any other list are numbered from 0.  An
\* ordered item shows its index plus one in its prefix, the first of the
\* three operations pushed for it.
C17_ListAfterPause ==
    [][\A e \in { l \in Elements : l.kind = "List" } :
          ProcessElement(e) /\ built' = "building" =>
             LET sealed == builder.slide_chunks
                 start == IF ContinuesList
                          THEN ListEnd(Len(elements))[1] + 1
                          ELSE 0
                 ends_in_line_break ==
                     /\ sealed # <<>>
                     /\ sealed[Len(sealed)].operations # <<>>
                     /\ LET operations == sealed[Len(sealed)].operations
                        IN operations[Len(operations)].op = "RenderLineBreak"
                 pushed == SubSeq(builder'.chunk_operations,
                                  Len(builder.chunk_operations) + 1,
                                  Len(builder'.chunk_operations))
             IN /\ Len(pushed) = 3 * Len(e.items) + 1
                /\ \A n \in 1..Len(e.items) :
                      e.items[n].depth = 0 /\ e.items[n].item_type # "Unordered" =>
                         pushed[3 * n - 2].text[1].number =
                             <<start + TopItems(e.items, n - 1) + 1>>
                /\ builder'.slide_chunks =
                       IF ContinuesList /\ ends_in_line_break
                       THEN pop_last(sealed)
                       ELSE sealed]_vars

\* the element the step hands to the loop of build, as a set: ProcessElement
\* is the one action that appends an element to those of a build under way
TakenElement ==
    IF built = "building" /\ Len(elements') = Len(elements) + 1
    THEN {elements'[Len(elements')]}
    ELSE {}

\* the operations the turn of the loop for the element leaves in the chunk
\* after those process_element left there: the line breaks build pushes by
\* itself
AutomaticLineBreaks(e) ==
    LET processed == process_element(
                         [builder EXCEPT
                             !.slide_state.ignore_element_line_break = FALSE],
                         e).builder
    IN SubSeq(builder'.chunk_operations,
              Len(processed.chunk_operations) + 1,
              Len(builder'.chunk_operations))

\* the comments that hold a command
CommandComments ==
    { e \in Elements : e.kind = "Comment" /\ ~should_ignore_comment(e) }

\* the elements of the kinds C24 names as getting a line break
BrokenKinds ==
    { e \in Elements :
        e.kind \in {"SetexHeading", "Heading", "Paragraph", "List", "Code",
                    "Table", "ThematicBreak", "BlockQuote", "Image"} }

\* the turn of the loop for the front matter pushes nothing after the
\* prelude of the slide the elements go to
NoBreakAfterFrontMatter ==
    \A f \in FrontMatters :
        StartBuild(<<f>>, TRUE) /\ built' = "building" =>
            builder'.chunk_operations =
                push_slide_prelude(NewBuilder(builder.theme)).chunk_operations

Failed(e) ==
    LET processed == process_element(
                         [builder EXCEPT
                             !.slide_state.ignore_element_line_break = FALSE],
                         e)
        validated == validate_last_operation(processed.builder)
    IN IF processed.error # "" THEN <<processed>>
       ELSE IF validated.error # "" THEN <<validated>>
       ELSE <<>>

\* C25: an error of the front matter, of the code theme, or of the
\* processing or the validation of any element is what build returns, at
\* that element: build takes no step after it has returned, so a build that
\* failed returns no presentation, and a presentation is only returned by
\* the end of build; the error of a comment that is no command carries the
\* comment's start line plus one.
C25_ErrorAborts ==
    [][/\ returned = <<>>
       /\ \A f \in FrontMatters, code_theme \in BOOLEAN :
            StartBuild(<<f>>, code_theme) =>
               IF ~f.valid THEN returned' = <<[error |-> "InvalidMetadata"]>>
               ELSE IF ~code_theme
               THEN returned' = <<[error |-> "InvalidCodeTheme"]>>
               ELSE returned' = <<>>
       /\ StartBuild(<<>>, FALSE) =>
               returned' = <<[error |-> "InvalidCodeTheme"]>>
       /\ \A e \in TakenElement :
               /\ IF Failed(e) # <<>>
                  THEN /\ returned' = <<BuildError(Failed(e)[1])>>
                       /\ DOMAIN returned'[1] \subseteq {"error", "line"}
                       /\ built' \in BuildErrors
                  ELSE returned' = <<>> /\ built' = "building"
               /\ e.kind = "Image" /\ ~e.found =>
                     returned' = <<[error |-> "LoadImage"]>>
               /\ e.kind = "Comment" /\ ~should_ignore_comment(e)
                                     /\ e.parsed = <<>> =>
                     returned' = <<[error |-> "CommandParse",
                                    line |-> e.line + 1]>>
       /\ FinishBuild => /\ built = "building"
                         /\ returned' = <<[presentation |-> builder'.slides]>>
       /\ returned' # <<>> /\ "presentation" \in DOMAIN returned'[1] =>
              FinishBuild]_vars

\* a comment on the fifth line that is no command fails a build that has
\* built a slide before it
C25_Witness ==
    /\ returned = <<[error |-> "CommandParse", line |-> 5]>>
    /\ built = "CommandParse"
    /\ builder.slides # <<>>
    /\ Len(elements) >= 2

\* the operations of the prelude of a slide
Prelude ==
    <<Op("SetColors"), Op("ClearScreen"), Op("ApplyMargin"),
      Op("RenderLineBreak")>>

\* how many `end_slide` commands the document holds
EndSlides == Cardinality({ k \in 1..Len(elements) : IsEndSlide(elements[k]) })

\* C27: a built presentation has 1 + E + I slides, E the `end_slide`
\* commands of the document and I 1 when its front matter gives a title, a
\* sub title or an author and else 0: never none, and one for a document
\* with no elements; of the elements only `end_slide` adds a slide, and an
\* `end_slide` at the end of the document leaves a last slide of one chunk
\* that holds the prelude alone.
C27_SlideCount ==
    /\ [](built = "Ok" =>
             /\ Len(builder.slides) =
                    1 + EndSlides + (IF HasIntroSlide THEN 1 ELSE 0)
             /\ returned = <<[presentation |-> builder.slides]>>
             /\ Len(builder.slides) >= 1
             /\ elements = <<>> => Len(builder.slides) = 1
             /\ elements # <<>> /\ IsEndSlide(elements[Len(elements)]) =>
                   builder.slides[Len(builder.slides)].chunks =
                       <<SlideChunk(Prelude, <<>>)>>)
    /\ [][\A e \in TakenElement :
            built' = "building" =>
                Len(builder'.slides) =
                    Len(builder.slides) + (IF IsEndSlide(e) THEN 1 ELSE 0)]_vars
    /\ [][FinishBuild => Len(builder'.slides) = Len(builder.slides) + 1]_vars

\* a presentation of three slides is built from a front matter with a title,
\* content and an `end_slide` at the end
C27_Witness ==
    /\ built = "Ok"
    /\ HasIntroSlide
    /\ Len(elements) = 3
    /\ ~IsEndSlide(elements[2])
    /\ IsEndSlide(elements[3])
    /\ Len(builder.slides) = 3
    /\ Len(builder.slides[2].chunks[1].operations) > Len(Prelude)

\* the operations that draw content
ContentOperations ==
    {"RenderText", "RenderImage", "RenderPreformattedLine", "RenderDynamic",
     "RenderOnDemand"}

\* no content operation comes after an InitColumnLayout before an
\* EnterColumn or an ExitLayout
NoContentOutsideColumn(operations) ==
    \A i \in 1..Len(operations), j \in 1..Len(operations) :
        /\ i < j
        /\ operations[i].op = "InitColumnLayout"
        /\ operations[j].op \in ContentOperations
        => \E k \in (i + 1)..(j - 1) :
              operations[k].op \in {"EnterColumn", "ExitLayout"}

\* the operations pushed so far for the slide under construction
SlideOperations == chunk_operations(builder.slide_chunks) \o builder.chunk_operations

\* C28: in no slide, of a built presentation or of one that is being built,
\* a content operation comes after a `column_layout` before a column is
\* entered or the layout is left; an element that pushes content while the
\* layout state is InLayout fails the build with NotInsideColumn.
C28_NoContentOutsideColumn ==
    /\ [](built \in {"building", "Ok"} =>
             /\ \A n \in 1..Len(builder.slides) :
                   NoContentOutsideColumn(chunk_operations(builder.slides[n].chunks))
             /\ NoContentOutsideColumn(SlideOperations))
    /\ [][\A e \in TakenElement \cap ContentElements :
             builder.slide_state.layout.tag = "InLayout"
             => built' = "NotInsideColumn"]_vars

\* a presentation is built with content in a column of a layout
C28_Witness ==
    /\ built = "Ok"
    /\ Len(elements) = 3
    /\ elements[1] \in LayoutComments
    /\ elements[2] \in ColumnComments
    /\ elements[3] \in ContentElements
    /\ \E i \in 1..Len(builder.slides[1].chunks[1].operations) :
          builder.slides[1].chunks[1].operations[i].op = "InitColumnLayout"
    /\ NoContentOutsideColumn(chunk_operations(builder.slides[1].chunks))

\* the last element the loop took is an `end_slide`
SlideJustEnded ==
    /\ built = "building"
    /\ elements # <<>>
    /\ IsEndSlide(elements[Len(elements)])

\* C29: `end_slide` never fails and leaves the layout state Default, no
\* column to be entered, the last element Any, last_chunk_ended_in_list
\* false, and the prelude alone in the chunk of the new slide, which has no
\* sealed chunk; right after it a `column` fails with NoLayout and a list
\* whose first item is of depth 0 gives that item the index 0.
C29_EndSlideResets ==
    [][/\ \A e \in TakenElement :
            IsEndSlide(e) =>
               /\ built' = "building"
               /\ builder'.slide_state.layout = LayoutDefault
               /\ ~builder'.slide_state.needs_enter_column
               /\ builder'.slide_state.last_element = LastElementAny
               /\ ~builder'.slide_state.last_chunk_ended_in_list
               /\ builder'.chunk_operations = Prelude
               /\ builder'.chunk_mutators = <<>>
               /\ builder'.slide_chunks = <<>>
               /\ Len(builder'.slides) = Len(builder.slides) + 1
       /\ \A e \in TakenElement \cap ColumnComments :
            SlideJustEnded => built' = "NoLayout"
       /\ \A e \in TakenElement :
            SlideJustEnded /\ e.kind = "List" /\ e.items # <<>>
                           /\ e.items[1].depth = 0 =>
               /\ built' = "building"
               /\ builder'.chunk_operations[Len(Prelude) + 1] =
                      RenderText(<<list_item_prefix(0, e.items[1])>>)]_vars

\* a slide is ended inside a column of a layout
C29_Witness ==
    /\ SlideJustEnded
    /\ Len(elements) = 3
    /\ elements[1] \in LayoutComments
    /\ elements[2] \in ColumnComments
    /\ builder.slide_state.layout = LayoutDefault
    /\ LET operations == builder.slides[1].chunks[1].operations
       IN operations[Len(operations)].op = "EnterColumn"

\* how many `pause` commands went to the slide
Pauses(slide_index) ==
    Cardinality({ k \in 1..Len(elements) :
                    IsPause(elements[k]) /\ SlideOf(k) = slide_index })

\* the first sequence starts the second
IsPrefix(first, second) ==
    /\ Len(first) <= Len(second)
    /\ SubSeq(second, 1, Len(first)) = first

\* the operations after a step go on from those before it: they start with
\* them, or, for a list that is merged with the one of the sealed chunk,
\* with them less the line break they end with
GoesOn(e, before, after) ==
    \/ IsPrefix(before, after)
    \/ /\ e.kind = "List"
       /\ before # <<>>
       /\ before[Len(before)] = Op("RenderLineBreak")
       /\ IsPrefix(SubSeq(before, 1, Len(before) - 1), after)

\* C30: `pause` never fails; it appends to the chunks of the slide one chunk
\* of the operations and the mutators of the builder, which it leaves with
\* none, and changes neither the layout state nor the last element nor the
\* slides; a slide of a built presentation has one chunk more than the
\* `pause` commands that went to it; and the operations of the chunks of a
\* slide, taken together, are the operations pushed for it in the order
\* they were pushed: every step adds its operations at the end, and what the
\* end of a slide seals is what was pushed.
C30_PauseSealsChunk ==
    /\ [][\A e \in TakenElement :
            IsPause(e) =>
               /\ built' = "building"
               /\ builder'.slide_chunks =
                      Append(builder.slide_chunks,
                             SlideChunk(builder.chunk_operations,
                                        builder.chunk_mutators))
               /\ builder'.chunk_operations = <<>>
               /\ builder'.chunk_mutators = <<>>
               /\ builder'.slide_state.layout = builder.slide_state.layout
               /\ builder'.slide_state.last_element =
                      builder.slide_state.last_element
               /\ builder'.slides = builder.slides]_vars
    /\ [](built = "Ok" =>
             \A n \in 1..Len(builder.slides) :
                 Len(builder.slides[n].chunks) = 1 + Pauses(n))
    /\ [][\A e \in TakenElement :
            built' = "building" =>
               IF IsEndSlide(e)
               THEN /\ chunk_operations(
                           builder'.slides[Len(builder'.slides)].chunks) =
                           SlideOperations
                    /\ SubSeq(builder'.slides, 1, Len(builder.slides)) =
                           builder.slides
               ELSE /\ GoesOn(e, SlideOperations, SlideOperations')
                    /\ builder'.slides = builder.slides]_vars
    /\ [][FinishBuild =>
             /\ chunk_operations(builder'.slides[Len(builder'.slides)].chunks) =
                    SlideOperations
             /\ SubSeq(builder'.slides, 1, Len(builder.slides)) =
                    builder.slides]_vars

\* a presentation is built whose slide has a chunk with a code block and
\* its mutator, sealed by a pause, and a chunk with what came after
C30_Witness ==
    /\ built = "Ok"
    /\ Len(elements) = 3
    /\ elements[1].kind = "Code"
    /\ IsPause(elements[2])
    /\ elements[3] \in ContentElements
    /\ Len(builder.slides) = 1
    /\ Len(builder.slides[1].chunks) = 2
    /\ builder.slides[1].chunks[1].mutators # <<>>
    /\ builder.slides[1].chunks[2].mutators = <<>>
    /\ builder.slides[1].chunks[2].operations # <<>>

-----------------------------------------------------------------------------
(* Further properties of the highlight mutator, checked under SpecMutator. *)

\* C21: reset_mutations sets current to 0 wherever the cursor was advanced
\* to; apply_all_mutations followed by one mutate_previous leaves current at
\* n - 2; a mutate_next that returned true followed by mutate_previous gives
\* back the cursor the mutate_next started from.
C21_ResetAndRoundTrips ==
    /\ [](/\ reset_mutations(context).current = 0
          /\ mutate_previous(apply_all_mutations(context)).context.current =
                 Len(context.groups) - 2
          /\ mutate_next(context).ret =>
                 mutate_previous(mutate_next(context).context).context = context)
    /\ [][/\ ResetMutations => context'.current = 0
          /\ mutation.call = "apply_all_mutations" /\ MutatePrevious =>
                 context'.current = Len(context.groups) - 2
          /\ mutation.call = "mutate_next" /\ mutation.ret = TRUE /\ MutatePrevious =>
                 /\ context'.current = context.current - 1
                 /\ mutate_next(context').context = context]_vars

\* mutate_previous has moved the cursor back from the last of MaxGroups
\* groups
C21_Witness ==
    /\ Len(context.groups) = MaxGroups
    /\ mutation = [call |-> "mutate_previous", ret |-> TRUE]
    /\ context.current = MaxGroups - 2

-----------------------------------------------------------------------------
(* Properties of push_table, checked under SpecTable.                      *)

\* the sum of the numbers
RECURSIVE Sum(_)
Sum(numbers) == IF numbers = <<>> THEN 0 ELSE Head(numbers) + Sum(Tail(numbers))

\* the width C22 gives column c of the table: the greatest display width of
\* its cells, the header's among them
ColumnWidth(table, c) ==
    LET cells == {table.header[c]} \cup { table.rows[r][c] : r \in 1..Len(table.rows) }
    IN CHOOSE w \in { Len(cell) : cell \in cells } :
           \A cell \in cells : Len(cell) <= w

\* the line of a row is as C22 says: every cell followed by the spaces that
\* fill its column, the cells joined by the run of width 3
RowAsClaimed(table, row, line) ==
    LET n == Len(table.header)
        offset(c) == Sum([d \in 1..(c - 1) |-> ColumnWidth(table, d) + 3])
    IN /\ Len(line) = Sum([c \in 1..n |-> ColumnWidth(table, c)]) + 3 * (n - 1)
       /\ \A c \in 1..n :
            /\ SubSeq(line, offset(c) + 1, offset(c) + ColumnWidth(table, c)) =
                   row[c] \o repeat(" ", ColumnWidth(table, c) - Len(row[c]))
            /\ c < n =>
                   SubSeq(line, offset(c) + ColumnWidth(table, c) + 1,
                          offset(c) + ColumnWidth(table, c) + 3) = " | "

\* C22: the width of a column is the greatest display width of its cells,
\* the header's among them; each cell of the header and of the rows is
\* followed by spaces up to that width, and the cells are joined by the run
\* of width 3, so all these lines are sum(widths) + 3 * (columns - 1) wide.
\* For the header [key, value, other] and the row [potato, bar, yes] the
\* three lines are those of the specification.
C22_TableLayout ==
    /\ table_lines # <<>> =>
          /\ Len(table_lines) = 2 + Len(table_input.rows)
          /\ RowAsClaimed(table_input, table_input.header, table_lines[1])
          /\ \A r \in 1..Len(table_input.rows) :
                RowAsClaimed(table_input, table_input.rows[r], table_lines[2 + r])
    /\ table_text([header |-> <<"key", "value", "other">>,
                   rows |-> << <<"potato", "bar", "yes">> >>]) =
           <<"key    | value | other",
             "-------+-------+------",
             "potato | bar   | yes  ">>

\* a table of MaxTableColumns columns is pushed whose header cell is
\* narrower than its column in one column and wider than the row's cell in
\* another
C22_Witness ==
    /\ table_lines # <<>>
    /\ Len(table_input.header) = MaxTableColumns
    /\ Len(table_input.rows) = 1
    /\ Len(table_input.header[1]) < Len(table_input.rows[1][1])
    /\ Len(table_input.header[2]) > Len(table_input.rows[1][2])

-----------------------------------------------------------------------------
(* Properties of CodePreparer, checked under SpecCode.                     *)

\* how many digits the number, above 0, is written with
Digits(n) == CHOOSE d \in 1..9 : 10 ^ (d - 1) <= n /\ n < 10 ^ d

\* the lines of the block among the prepared ones: those push_lines made,
\* which carry a line number
NumberedLines(prepared) == SelectSeq(prepared, LAMBDA l : l.line_number # <<>>)

\* C23: for a block of N > 0 lines with line numbers, the prefix of every
\* line of the block is horizontal padding + digits of N + 1 wide, the
\* number is preceded by the spaces that align it to the right, the k-th
\* line carries the number k and the lines are numbered 1..N; of 11 lines,
\* the first nine have the prefix " k " and the last two "10 " and "11 ".
C23_LineNumberPrefixes ==
    /\ code_lines # <<>> /\ code_input.line_numbers /\ code_input.contents # <<>> =>
          LET lines == NumberedLines(code_lines[1])
              total == Len(code_input.contents)
          IN /\ Len(lines) = total
             /\ \A k \in 1..total :
                   /\ lines[k].line_number = <<k>>
                   /\ Len(lines[k].prefix) =
                          code_input.horizontal + Digits(total) + 1
                   /\ lines[k].prefix =
                          repeat(" ", code_input.horizontal
                                          + Digits(total) - Digits(k))
                              \o to_string(k) \o " "
    /\ LET lines == prepare([horizontal_padding |-> 0, vertical_padding |-> 0],
                            [contents |-> [n \in 1..11 |-> "hi"],
                             line_numbers |-> TRUE])
       IN [k \in 1..11 |-> lines[k].prefix] =
              <<" 1 ", " 2 ", " 3 ", " 4 ", " 5 ", " 6 ", " 7 ", " 8 ", " 9 ",
                "10 ", "11 ">>

\* a block of more than nine numbered lines is prepared under a horizontal
\* padding
C23_Witness ==
    /\ code_lines # <<>>
    /\ code_input.line_numbers
    /\ Len(code_input.contents) > 9
    /\ code_input.horizontal > 0
    /\ code_lines[1][Len(code_lines[1])].prefix = " 10 "

-----------------------------------------------------------------------------
(* Further properties of the presentation builder, checked under SpecBuild. *)

\* the index the iterator of push_list gives to the last item of depth 0 of
\* the list, None (<<>>) for a list with no such item
LastTopLevelIndex(b, list_items) ==
    LET start_index == IF /\ b.slide_state.last_element # LastElementAny
                          /\ b.chunk_operations = <<>>
                       THEN b.slide_state.last_element[1] + 1
                       ELSE 0
        indexed == collect(NewListIterator(list_items, start_index))
        top == { k \in 1..Len(indexed) : indexed[k].item.depth = 0 }
    IN IF top = {} THEN <<>>
       ELSE <<indexed[CHOOSE k \in top : \A other \in top : other <= k].index>>

\* an element other than a list and a comment, processed without an error,
\* leaves the last element Any; a list with an item of depth 0 leaves the
\* index of the last such item, and a list with none leaves what it found
ElementsSetLastElement ==
    \A e \in TakenElement :
        /\ e.kind \notin {"List", "Comment"} /\ built' = "building" =>
              builder'.slide_state.last_element = LastElementAny
        /\ e.kind = "List" =>
              builder'.slide_state.last_element =
                  IF LastTopLevelIndex(builder, e.items) = <<>>
                  THEN builder.slide_state.last_element
                  ELSE LastElementList(LastTopLevelIndex(builder, e.items)[1])

\* C31 as stated: a comment of any kind, a command or an ignored one, leaves
\* the last element of the builder as it found it; any element other than a
\* list and a comment leaves it Any; a list leaves the index of its last
\* item of depth 0.
C31_LastElementMemory ==
    [][/\ \A e \in TakenElement :
            e.kind = "Comment" =>
               builder'.slide_state.last_element =
                   builder.slide_state.last_element
       /\ ElementsSetLastElement]_vars

\* C31, amended: a comment other than `end_slide` leaves the last element of
\* the builder as it found it and `end_slide` leaves it Any; any element
\* other than a list and a comment leaves it Any; a list leaves the index of
\* its last item of depth 0.
C31_LastElementMemoryButEndSlide ==
    [][/\ \A e \in TakenElement :
            e.kind = "Comment" =>
               builder'.slide_state.last_element =
                   IF IsEndSlide(e) THEN LastElementAny
                   ELSE builder.slide_state.last_element
       /\ ElementsSetLastElement]_vars

\* a pause after a list has left the index of the list's last item of depth
\* 0 in the builder
C31_Witness ==
    /\ built = "building"
    /\ Len(elements) = 2
    /\ elements[1].kind = "List"
    /\ IsPause(elements[2])
    /\ builder.slide_state.last_element = LastElementList(1)

-----------------------------------------------------------------------------
(* SpecChunks: build over the documents of lists, pauses and what may come  *)
(* between them (builder.rs:81-105, 299-305, 375-395)                       *)

\* the most elements of such a document, its front matter aside
MaxChunkElements == 4

\* the lists, a heading, a paragraph of nothing, and the comments `pause`,
\* `end_slide`, `reset_layout` and an ignored one
ChunkElements ==
    { e \in Elements :
        \/ e.kind \in {"List", "Heading"}
        \/ e.kind = "Paragraph" /\ e.elements = <<>>
        \/ e.kind = "Comment" /\ e.trimmed \in {"pause", "end_slide",
                                                "reset_layout", "{{{"} }

\* one turn of the loop of build (builder.rs:90-97) over such a document
ProcessChunkElement(element) ==
    /\ built = "building"
    /\ Handled < MaxChunkElements
    /\ LoopTurn(build_element(builder, element), Append(elements, element))
    /\ UNCHANGED offBuild

NextChunks ==
    \/ \E front_matter \in {<<>>} \cup { <<f>> : f \in FrontMatters },
          code_theme \in BOOLEAN : StartBuild(front_matter, code_theme)
    \/ \E element \in ChunkElements : ProcessChunkElement(element)
    \/ FinishBuild

SpecChunks == InitBuild /\ [][NextChunks]_vars

-----------------------------------------------------------------------------
(* Properties of lists across pauses, checked under SpecChunks.            *)

\* the operations push_list pushes for the items of a list numbered from
\* `start_index`: the prefix, the contents and a line break for each
ListOperations(list_items, start_index) ==
    push_list_items([chunk_operations |-> <<>>,
                     slide_state |-> [last_element |-> LastElementAny]],
                    collect(NewListIterator(list_items, start_index)))
        .chunk_operations

\* the last operation of the last sealed chunk, None (<<>>) without one
LastSealedOperation(b) ==
    IF b.slide_chunks = <<>> THEN <<>>
    ELSE LET operations == b.slide_chunks[Len(b.slide_chunks)].operations
         IN IF operations = <<>> THEN <<>>
            ELSE <<operations[Len(operations)]>>

\* the operations the turn of the loop added to the chunk
Pushed ==
    SubSeq(builder'.chunk_operations, Len(builder.chunk_operations) + 1,
           Len(builder'.chunk_operations))

\* the last two elements the loop took are a pause and an element that is
\* no comment
AfterPauseAndElement ==
    /\ Len(elements) >= 2
    /\ IsPause(elements[Len(elements) - 1])
    /\ elements[Len(elements)].kind # "Comment"

\* C32: an element other than a comment leaves operations in the chunk, and
\* a list reached with operations in the chunk leaves the sealed chunks as
\* they are, the line break that ends the last one included, and numbers its
\* items from 0; a list changes the sealed chunks only when the chunk is
\* empty, and then by removing the one line break that ends the last of
\* them.
C32_MergeOnlyIntoEmptyChunk ==
    [][\A e \in TakenElement :
          /\ e.kind # "Comment" => builder'.chunk_operations # <<>>
          /\ e.kind = "List" /\ builder.chunk_operations # <<>> =>
                /\ builder'.slide_chunks = builder.slide_chunks
                /\ Pushed = ListOperations(e.items, 0) \o <<Op("RenderLineBreak")>>
                /\ \A n \in 1..Len(e.items) :
                      (e.items[n].depth = 0 /\ \A m \in 1..(n - 1) : e.items[m].depth # 0)
                         => Pushed[3 * n - 2] =
                                RenderText(<<list_item_prefix(0, e.items[n])>>)
          /\ e.kind = "List" /\ AfterPauseAndElement =>
                /\ builder.chunk_operations # <<>>
                /\ builder'.slide_chunks = builder.slide_chunks
                /\ Pushed = ListOperations(e.items, 0) \o <<Op("RenderLineBreak")>>
          /\ e.kind = "List" /\ builder'.slide_chunks # builder.slide_chunks =>
                /\ builder.chunk_operations = <<>>
                /\ LastSealedOperation(builder) = <<Op("RenderLineBreak")>>
                /\ builder'.slide_chunks = pop_last(builder.slide_chunks)]_vars

\* a presentation is built from a list, a pause, a heading and a list: the
\* chunk the pause sealed ends with its line break and the second list is
\* numbered from 0
C32_Witness ==
    /\ built = "Ok"
    /\ Len(elements) = 4
    /\ elements[1].kind = "List" /\ elements[1].items # <<>>
    /\ IsPause(elements[2])
    /\ elements[3].kind = "Heading"
    /\ elements[4].kind = "List" /\ elements[4].items # <<>>
    /\ elements[4].items[1].item_type = "OrderedPeriod"
    /\ Len(builder.slides) = 1
    /\ Len(builder.slides[1].chunks) = 2
    /\ LET sealed == builder.slides[1].chunks[1].operations
           last == builder.slides[1].chunks[2].operations
       IN /\ sealed[Len(sealed)] = Op("RenderLineBreak")
          /\ \E k \in 1..Len(last) :
                last[k] = RenderText(<<list_item_prefix(0, elements[4].items[1])>>)

-----------------------------------------------------------------------------
(* Properties of the highlighted lines, checked under SpecMutator.         *)

\* C33: a line rendered shows its highlighted text exactly when it has a
\* number and the group at the current index of the context contains it, and
\* its plain text otherwise, so a padding line always shows its plain text;
\* rendering leaves the context and the result of the last mutator call as
\* they are, and whatever calls came before, the text shown is the one of
\* the current index they left.
C33_HighlightFollowsCurrent ==
    [][RenderLine =>
          /\ context' = context
          /\ mutation' = mutation
          /\ line_text'.text \in {"highlighted", "not_highlighted"}
          /\ line_text'.text = "highlighted" <=>
                /\ line_text'.line_number # <<>>
                /\ line_text'.line_number[1] \in context'.groups[context'.current + 1]
          /\ line_text'.line_number = <<>> => line_text'.text = "not_highlighted"]_vars

\* after a mutate_next, a line is rendered highlighted that the first group
\* does not contain
C33_Witness ==
    /\ line_text # <<>>
    /\ line_text.text = "highlighted"
    /\ line_text.line_number # <<>>
    /\ context.current > 0
    /\ line_text.line_number[1] \notin context.groups[1]
    /\ mutation = [call |-> "mutate_next", ret |-> TRUE]

-----------------------------------------------------------------------------
(* Properties of the code blocks of a build, checked under SpecBuild.      *)

\* the chunks of the builder: those of its slides, those sealed on the slide
\* under way, and the chunk under way
BuilderChunks(b) ==
    UNION { { b.slides[s].chunks[c] : c \in 1..Len(b.slides[s].chunks) } :
                s \in 1..Len(b.slides) }
    \cup { b.slide_chunks[c] : c \in 1..Len(b.slide_chunks) }
    \cup { SlideChunk(b.chunk_operations, b.chunk_mutators) }

\* the operations of the builder's chunks
BuilderOperations(b) ==
    UNION { { chunk.operations[k] : k \in 1..Len(chunk.operations) } :
                chunk \in BuilderChunks(b) }

\* the highlighted lines of the builder's chunks
HighlightedLines(b) ==
    { o \in BuilderOperations(b) :
        IF o.op = "RenderDynamic" THEN o.dynamic = "HighlightedLine" ELSE FALSE }

\* C34: a code block adds a mutator over its groups to the chunk exactly
\* when mutations are allowed and it declares more than one group, and no
\* other element adds one; with the options of export mode every line of a
\* code block reads a context of one group that contains its number, at
\* index 0, and no chunk of the builder holds a mutator.
C34_MutatorOnlyForGroups ==
    /\ [](built \in {"building", "Ok"}
             /\ builder.options = PresentationBuilderOptions("Export") =>
                /\ \A chunk \in BuilderChunks(builder) : chunk.mutators = <<>>
                /\ \A line \in HighlightedLines(builder) :
                      /\ Len(line.context.groups) = 1
                      /\ line.context.current = 0
                      /\ line.line_number # <<>> =>
                            line.line_number[1] \in line.context.groups[1])
    /\ [][\A e \in TakenElement :
            /\ e.kind = "Code" =>
                  builder'.chunk_mutators =
                      IF /\ builder.options.allow_mutations
                         /\ Len(e.code.highlight_groups) > 1
                      THEN Append(builder.chunk_mutators,
                                  NewHighlightContext(e.code.highlight_groups))
                      ELSE builder.chunk_mutators
            /\ e.kind # "Code" =>
                  builder'.chunk_mutators \in {builder.chunk_mutators, <<>>}]_vars

\* a presentation is built without mutations from a code block of two
\* groups
C34_Witness ==
    /\ built = "Ok"
    /\ builder.options = PresentationBuilderOptions("Export")
    /\ \E k \in 1..Len(elements) :
          /\ elements[k].kind = "Code"
          /\ Len(elements[k].code.highlight_groups) > 1
    /\ HighlightedLines(builder) # {}

-----------------------------------------------------------------------------
(* FooterGenerator (builder.rs:794-873): the footer of a slide, rendered    *)
(* from the generator of the slide and the FooterContext it shares with the *)
(* builder.                                                                 *)

\* FooterStyle, as far as as_render_operations matches on it
FooterStyles == {"Template", "ProgressBar", "Empty"}

\* a faulty as_render_operations of FooterGenerator: the index of the slide
\* is shown as it is
footer_operations_from_zero(generator, footer_context, style) ==
    CASE style = "Template" ->
             <<[op |-> "JumpToBottomRow", index |-> 1],
               [op |-> "RenderText",
                current_slide |-> to_string(generator.current_slide),
                total_slides |-> to_string(footer_context.total_slides),
                author |-> footer_context.author]>>
      [] style = "ProgressBar" ->
             <<[op |-> "JumpToBottomRow", index |-> 0],
               [op |-> "RenderText",
                progress |-> <<generator.current_slide,
                               footer_context.total_slides>>]>>
      [] style = "Empty" -> <<>>

\* FooterGenerator::as_render_operations, with render_template: the texts
\* that take the place of {current_slide}, {total_slides} and {author} in a
\* template, or the two terms of the ratio of the progress bar;
\* `footer_context` is the FooterContext behind the generator's Rc as the
\* render finds it
footer_operations(generator, footer_context, style) ==
    CASE style = "Template" ->
             <<[op |-> "JumpToBottomRow", index |-> 1],
               [op |-> "RenderText",
                current_slide |-> to_string(generator.current_slide + 1),
                total_slides |-> to_string(footer_context.total_slides),
                author |-> footer_context.author]>>
      [] style = "ProgressBar" ->
             <<[op |-> "JumpToBottomRow", index |-> 0],
               [op |-> "RenderText",
                progress |-> <<generator.current_slide + 1,
                               footer_context.total_slides>>]>>
      [] style = "Empty" -> <<>>

-----------------------------------------------------------------------------
(* Properties of the footers of a build, checked under SpecBuild.          *)

\* the footer generators among the operations
FooterGenerators(operations) ==
    { k \in 1..Len(operations) :
        IF operations[k].op = "RenderDynamic"
        THEN operations[k].dynamic = "FooterGenerator" ELSE FALSE }

\* the author of the front matter of the document, "" without one
FrontMatterAuthor ==
    IF elements # <<>> /\ elements[1].kind = "FrontMatter"
                       /\ elements[1].author # <<>>
    THEN elements[1].author[1]
    ELSE ""

\* C35: in a built presentation the footer of every slide holds one footer
\* generator, the chunks hold none, and the generator of the slide of index
\* i, rendered from the footer context as build left it, shows i + 1 as the
\* current slide, the number of slides of the presentation as the total and
\* the author of the front matter; while the slides are built the context
\* still holds a total of 0.
C35_FootersReadSharedContext ==
    /\ built = "building" => builder.footer_context.total_slides = 0
    /\ built = "Ok" =>
          \A i \in 1..Len(builder.slides) :
             LET slide == builder.slides[i]
                 footers == FooterGenerators(slide.footer)
             IN /\ Cardinality(footers) = 1
                /\ FooterGenerators(chunk_operations(slide.chunks)) = {}
                /\ \A k \in footers :
                      /\ slide.footer[k].current_slide = i - 1
                      /\ footer_operations(slide.footer[k], builder.footer_context,
                                           "Template")[2] =
                             [op |-> "RenderText",
                              current_slide |-> to_string(i),
                              total_slides |-> to_string(Len(builder.slides)),
                              author |-> FrontMatterAuthor]
                      /\ footer_operations(slide.footer[k], builder.footer_context,
                                           "ProgressBar")[2].progress =
                             <<i, Len(builder.slides)>>

\* a presentation of three slides is built from a front matter with an
\* author: the footer of its first slide was made before the others existed
C35_Witness ==
    /\ built = "Ok"
    /\ Len(builder.slides) = 3
    /\ FrontMatterAuthor = "author"
    /\ builder.footer_context.total_slides = 3
    /\ FooterGenerators(builder.slides[1].footer) # {}

-----------------------------------------------------------------------------
(* Further properties of the session controller, checked under Spec.       *)

\* the step applies a command: apply_command and the match on its effect
CommandStep == pc = "try_next_command" /\ pc' # pc

\* the step is a call of update_widgets
UpdateWidgetsStep ==
    pc \in {"update_widgets_outer", "update_widgets_inner"} /\ pc' # pc

\* the widgets of the slide of index i of the presentation held by st
SlideWidgets(st, i) ==
    LET slide == presentation(st).slides[i + 1]
    IN { slide[c].widget[1] : c \in { k \in 1..Len(slide) : slide[k].widget # <<>> } }

\* the step is a RenderWidgets command that started a widget of the slide of
\* index i, the current one
StartedWidgetOf(i) ==
    /\ CommandStep
    /\ effect' = "PollWidgets"
    /\ state.tag = "Presenting" /\ state'.tag = "Presenting"
    /\ current_slide_index(presentation(state)) = i
    /\ current_slide_index(presentation(state')) = i
    /\ \E c \in widget_chunks(presentation(state)) :
          /\ presentation(state).slides[i + 1][c].widget[1].state = "NotStarted"
          /\ presentation(state').slides[i + 1][c].widget[1].state # "NotStarted"

\* the step is an update_widgets that found every widget of the slide of
\* index i, the current one, Rendered, and rendered the slide twice
PolledOut(i) ==
    /\ UpdateWidgetsStep
    /\ result' = "running"
    /\ current_slide_index(presentation(state)) = i
    /\ current_slide_index(presentation(state')) = i
    /\ \A w \in SlideWidgets(state', i) : w.state = "Rendered"
    /\ update_widgets(state, pending, "Ok", "Ok").renders = 2
    /\ rendered' = "slide"

\* the step is a reload that try_reload does not skip
ReloadNotSkipped == ReloadStep /\ mode # "Presentation"

\* C36: the index of a slide enters the pending ones only by a RenderWidgets
\* command on that slide that started one of its widgets; it leaves them
\* only by a reload or by an update_widgets on that slide, the current one,
\* that found all its widgets Rendered and rendered the slide once more; an
\* update_widgets neither polls the widgets of another slide nor touches its
\* place among the pending ones; a reload that is not skipped leaves none
\* pending, whether the load succeeds or fails, and a skipped one leaves
\* them as they are.
C36_PendingWidgets ==
    [][/\ \A i \in pending' \ pending : StartedWidgetOf(i)
       /\ \A i \in pending \ pending' : ReloadNotSkipped \/ PolledOut(i)
       /\ UpdateWidgetsStep /\ state.tag # "Empty" =>
             \A i \in 0..(slide_count(presentation(state)) - 1) :
                i # current_slide_index(presentation(state)) =>
                   /\ presentation(state').slides[i + 1] =
                          presentation(state).slides[i + 1]
                   /\ i \in pending' <=> i \in pending
       /\ ReloadNotSkipped => pending' = {} /\ loaded' # "none"
       /\ ReloadStep /\ mode = "Presentation" =>
             pending' = pending /\ loaded' = "none"]_vars

\* the slide shown has left the pending ones: its widget ran and was found
\* Rendered by an update_widgets, while another slide is still pending
C36_Witness ==
    /\ pc = "try_next_command"
    /\ state.tag = "Presenting"
    /\ rendered = "slide"
    /\ current_slide_index(presentation(state)) \notin pending
    /\ pending # {}
    /\ SlideWidgets(state, current_slide_index(presentation(state))) # {}
    /\ \A w \in SlideWidgets(state, current_slide_index(presentation(state))) :
          w.state = "Rendered" /\ w.handle = <<>> /\ w.output_lines = <<>>

-----------------------------------------------------------------------------
(* Further properties of the on-demand execution operation, checked under  *)
(* SpecRun.                                                                *)

\* the pieces of at most `columns` characters a line falls into, each with
\* the line break after it
Pieces(line, columns) ==
    LET count == (Len(line) + columns - 1) \div columns
        piece(k) == SubSeq(line, (k - 1) * columns + 1, Min(k * columns, Len(line)))
    IN [n \in 1..(2 * count) |->
           IF n % 2 = 1
           THEN [op |-> "RenderPreformattedLine", text |-> piece((n + 1) \div 2),
                 unformatted_length |-> Len(piece((n + 1) \div 2)),
                 block_length |-> Len(piece((n + 1) \div 2))]
           ELSE [op |-> "RenderLineBreak"]]

\* the pieces of the lines, in order
RECURSIVE AllPieces(_, _)
AllPieces(lines, columns) ==
    IF lines = <<>> THEN <<>>
    ELSE Pieces(Head(lines), columns) \o AllPieces(Tail(lines), columns)

\* C37: rendered while NotStarted the operation gives no operations;
\* rendered while Rendering it gives a separator that reads running and
\* while Rendered one that reads done, between line breaks, then the colors
\* of the block, then every output line in pieces of at most as many
\* characters as the terminal has columns, each with a line break, then the
\* default colors; rendering changes nothing of the operation.
C37_RenderByState ==
    [][RenderOperation =>
          /\ op' = op
          /\ spawns' = spawns
          /\ op.state = "NotStarted" => shown' = <<>>
          /\ op.state # "NotStarted" =>
                /\ SubSeq(shown', 1, 5) =
                       <<[op |-> "RenderLineBreak"],
                         [op |-> "RenderDynamic",
                          heading |-> CASE op.state = "Rendering" -> " [running] "
                                        [] op.state = "Rendered" -> " [done] "],
                         [op |-> "RenderLineBreak"],
                         [op |-> "RenderLineBreak"],
                         [op |-> "SetColors", colors |-> "block_colors"]>>
                /\ SubSeq(shown', 6, Len(shown') - 1) =
                       AllPieces(op.output_lines, window')
                /\ \A n \in 6..(Len(shown') - 1) :
                      shown'[n].op = "RenderPreformattedLine" =>
                         Len(shown'[n].text) \in 1..window'
                /\ shown'[Len(shown')] =
                       [op |-> "SetColors", colors |-> "default_colors"]]_vars

\* a running operation that has taken the line "bc" from its process is
\* rendered on a terminal of one column: the line comes in two pieces
C37_Witness ==
    /\ call = "as_render_operations"
    /\ op.state = "Rendering"
    /\ op.handle # <<>>
    /\ op.output_lines = <<"bc">>
    /\ window = 1
    /\ Len(shown) = 10
    /\ shown[2].heading = " [running] "
    /\ shown[6].text = "b"
    /\ shown[8].text = "c"

\* the render errors other than a terminal that is too small
FatalRenderErrors == RenderOutcomes \ {"Ok", "TerminalTooSmall"}

\* the step is the render of the main loop, and what present() does next is
\* what it does when the drawer comes to `outcome`
RenderGives(outcome) ==
    /\ Render
    /\ state.tag # "Empty"
    /\ pc' = IF render(state, outcome).result = "Ok"
             THEN "update_widgets_outer" ELSE "done"

\* the step is an update_widgets, and what it leaves and what present() does
\* next is what they are when the drawer comes to `first` and to `second`
PollGives(first, second) ==
    /\ UpdateWidgetsStep
    /\ state.tag # "Empty"
    /\ LET r == update_widgets(state, pending, first, second)
       IN /\ state' = r.state
          /\ pending' = r.pending
          /\ (pc' = "done") <=> (r.result # "Ok")

\* the renders update_widgets asks for when none of them fails
RendersOfPoll == update_widgets(state, pending, "Ok", "Ok").renders

\* C38: a render of the main loop that finds the terminal too small goes on
\* to update_widgets like one that succeeds, with the state and the pending
\* slides as they were, and one that fails otherwise ends the session with a
\* render error; an update_widgets whose renders find the terminal too small
\* leaves what it leaves when they succeed and the loop goes on, and one
\* whose first or second render fails otherwise ends the session with a
\* render error, the slide still pending.
C38_TerminalTooSmallIsNoError ==
    [][/\ \A outcome \in {"Ok", "TerminalTooSmall"} :
            RenderGives(outcome) =>
               /\ pc' = "update_widgets_outer"
               /\ result' = "running"
               /\ state' = state /\ pending' = pending
       /\ \A outcome \in FatalRenderErrors :
            RenderGives(outcome) =>
               /\ pc' = "done"
               /\ result' = "render_error"
               /\ state' = state /\ pending' = pending
       /\ \A first, second \in {"Ok", "TerminalTooSmall"} :
            PollGives(first, second) =>
               /\ pc' \in {"update_widgets_inner", "try_next_command"}
               /\ result' = "running"
               /\ state' = update_widgets(state, pending, "Ok", "Ok").state
               /\ pending' = update_widgets(state, pending, "Ok", "Ok").pending
       /\ \A first \in FatalRenderErrors, second \in RenderOutcomes :
            PollGives(first, second) /\ RendersOfPoll >= 1 =>
               /\ pc' = "done"
               /\ result' = "render_error"
               /\ state' = state /\ pending' = pending
       /\ \A first \in {"Ok", "TerminalTooSmall"}, second \in FatalRenderErrors :
            PollGives(first, second) /\ RendersOfPoll = 2 =>
               /\ pc' = "done"
               /\ result' = "render_error"
               /\ pending' = pending]_vars

\* the session ended with a render error in the last render of an
\* update_widgets: the process of the widget of the slide shown had ended
\* and the poll took its state, and the slide is still pending
C38_Witness ==
    /\ pc = "done"
    /\ result = "render_error"
    /\ state.tag = "Presenting"
    /\ current_slide_index(presentation(state)) \in pending
    /\ \E w \in SlideWidgets(state, current_slide_index(presentation(state))) :
          /\ w.state = "Rendered"
          /\ w.handle = <<>>
          /\ w.output_lines # <<SpawnErrorText>>

-----------------------------------------------------------------------------
(* Properties of the separator of a table, checked under SpecTable.        *)

\* the separator C39 describes for the columns from c on, of n: a crossing
\* before every column but the first, then as many dashes as the column is
\* wide and one more, or two more for a column that is neither the first
\* nor the last
RECURSIVE SeparatorAsClaimed(_, _, _)
SeparatorAsClaimed(table, c, n) ==
    IF c > n THEN ""
    ELSE (IF c > 1 THEN "+" ELSE "")
         \o repeat("-", ColumnWidth(table, c) + (IF c = 1 \/ c = n THEN 1 ELSE 2))
         \o SeparatorAsClaimed(table, c + 1, n)

\* the separator is the second line pushed, and is as C39 describes it
SeparatorLineAsClaimed ==
    table_lines[2] = SeparatorAsClaimed(table_input, 1, Len(table_input.header))

\* the separator is as wide as the header and as every row
SeparatorAsWideAsRows ==
    /\ Len(table_lines[2]) = Len(table_lines[1])
    /\ \A r \in 1..Len(table_input.rows) :
          Len(table_lines[2]) = Len(table_lines[2 + r])

\* C39: the separator of a table of one column or more is as wide as the
\* header and as every row: a crossing comes before every column but the
\* first, the first and the last column get one dash more than their width
\* and the columns between them two.
C39_SeparatorAsWide ==
    table_lines # <<>> => SeparatorLineAsClaimed /\ SeparatorAsWideAsRows

\* the same of the tables of two columns or more, and the dashes and the
\* crossings alone of the tables of one column
C39_SeparatorAsWideFromTwoColumns ==
    table_lines # <<>> =>
        /\ SeparatorLineAsClaimed
        /\ Len(table_input.header) >= 2 => SeparatorAsWideAsRows
        /\ Len(table_input.header) = 1 =>
              Len(table_lines[2]) = Len(table_lines[1]) + 1

\* a table of one column is pushed, with a row
C39_OneColumn ==
    /\ table_lines # <<>>
    /\ Len(table_input.header) = 1
    /\ Len(table_input.rows) = 1
    /\ table_input.header[1] = "key"

-----------------------------------------------------------------------------
(* The session state between the initial load and the end of the session,  *)
(* checked under Spec.                                                     *)

\* the places of present() past a successful initial load: the making of
\* the drawer and the places of the loop
PastInitialLoad ==
    pc \in {"drawer", "render", "update_widgets_outer", "update_widgets_inner",
            "try_next_command"}

\* C40: once the initial load has succeeded the session state is Presenting
\* or Failure wherever present() renders it, polls its widgets or asks for
\* its presentation, and at the end of the session too, whatever commands
\* came and whatever the reloads came to; present() never panics.
C40_NeverEmptyPastLoad ==
    /\ PastInitialLoad => state.tag \in {"Presenting", "Failure"}
    /\ pc = "done" /\ result # "load_error" => state.tag \in {"Presenting", "Failure"}
    /\ result # "panic"

\* the session asks for a command after a reload has failed and the error
\* has been rendered, the presentation kept past its first slide
C40_Witness ==
    /\ pc = "try_next_command"
    /\ state.tag = "Failure"
    /\ rendered = "error"
    /\ current_slide_index(presentation(state)) > 0

=============================================================================
